---- MODULE Spec2Model ----
(***************************************************************************)
(* Lead engagement and meeting negotiation engine of Humain_LGM.           *)
(*                                                                         *)
(* The model covers the Store (leads, meetings, conversation turns), the   *)
(* Negotiation Registry (TelegramBot.pending_meetings), the calendar       *)
(* collaborator and the handlers that mutate them:                         *)
(*   LeadProcessor.process_lead_response   (inbound reply of a lead)       *)
(*   TelegramBot.handle_callback           (approval-UI button)            *)
(*   TelegramBot.handle_manual_time_input  (manager free text)             *)
(*   WebhookManager._handle_meeting_*      (calendar webhooks)             *)
(* Each handler is one action.  Results of external calls (channel sends,  *)
(* calendar calls, NLU results) are inputs of the action.                  *)
(*                                                                         *)
(* The conversations table is append-only and the code reads it back only  *)
(* through "latest inbound turn of this lead"; it is represented by        *)
(* lastInbound (the channel of that turn).  The rows a handler appends and *)
(* the messages it hands to a channel are part of the handler's effect     *)
(* record (Eff), on which the properties about sends and turns are stated. *)
(***************************************************************************)
EXTENDS Integers, Sequences, FiniteSets, TLC

\* ---------------------------------------------------------------- bounds
NumLeads == 1
MaxNeg   == 2
MaxTime  == 4
NumOutreachLeads == 2
MaxDays  == 9
MaxHours == 25

Leads == 1..NumLeads
Mids  == 1..MaxNeg
Times == 0..MaxTime
OutreachLeads == 1..NumOutreachLeads

\* ------------------------------------------------------------ vocabulary
NoEvent == 0
NoTime  == -1
NoLead  == 0
NoMid   == 0
NoIdx   == -1

\* Models/models.py LeadStatus
LeadStatus == {"NEW", "CONTACTED", "RESPONDED", "INTERESTED",
               "MEETING_REQUESTED", "MEETING_SCHEDULED", "NOT_INTERESTED",
               "FOLLOW_UP"}

\* Models/models.py CommunicationChannel (LINKEDIN has no handler)
Channels == {"email", "whatsapp"}
NoChannel == "none"

\* The clock: slot times are days, Now is today; day 0 is in the past.
Now == 1

\* datetime.weekday(): 0 = Monday .. 6 = Sunday; day 1 is a Friday.
Weekday(t) == (t + 3) % 7

\* TelegramBot.__init__ sets bot, group_chat_id, calendar_handler,
\* pending_meetings and logger only: hasattr(self, 'whatsapp_handler') and
\* hasattr(self, 'email_handler') are false on the singleton.
BotHasWhatsappHandler == FALSE
BotHasEmailHandler    == FALSE

\* --------------------------------------------------------------- state
VARIABLES
    contact,      \* lead -> [phone, email]: phone_number present; email present and verified
    status,       \* lead -> Lead.status
    meetings,     \* the meetings table in created_at order
    lastInbound,  \* lead -> channel of the lead's latest inbound turn
    pending,      \* TelegramBot.pending_meetings: negotiation id -> record
    nextId,       \* next fresh negotiation id
    events,       \* ids of the events that exist in the calendar
    nextEvent,    \* next fresh calendar event id
    lastOp        \* the handler that ran last: its token or text, its notices

\* What the runs of the exhaustive-intent specification record.
VARIABLES
    lastIntent    \* the NLU result of the last inbound reply and its consumer

replyVars == <<lastIntent>>

\* Outreach and follow-up: the scheduler loop of LeadAutomationSystem.
VARIABLES
    followUp,     \* lead -> Lead.next_follow_up_date in hours, NoTime when NULL
    clock,        \* datetime.utcnow() in hours
    lastOut       \* the scheduler operation that ran last: its sends and notices

outreachVars == <<followUp, clock, lastOut>>

\* WhatsAppRateLimiter.usage_data and the messages the WhatsApp API accepted.
VARIABLES
    usage,        \* daily_count, hourly_count, last_reset, hourly_reset, total_sent
    posted        \* number of messages the API accepted in the current hour

rateVars == <<usage, posted>>

\* The follow-up sweep while it is between its query and its commit.
VARIABLES
    sweep         \* phase, leads still to process, loaded statuses, unflushed writes

sweepVars == <<sweep>>

\* The run of one `with db_session()` block, the scheduler loop, and the
\* threads that process inbound replies.
VARIABLES
    txn,          \* phase, generator state, sessions opened and closed, result
    loop,         \* LeadAutomationSystem.main_loop: step, is_running
    workers       \* reply thread -> its position, its input, what it has read

runtimeVars == <<txn, loop, workers>>

\* The variables the negotiation handlers never touch.
extVars == <<replyVars, outreachVars, rateVars, sweepVars, runtimeVars>>

vars == <<contact, status, meetings, lastInbound, pending, nextId, events,
          nextEvent, lastOp, extVars>>

\* ------------------------------------------------------------- helpers
Remove(pm, mid) == [m \in (DOMAIN pm) \ {mid} |-> pm[m]]

Put(pm, mid, rec) == [m \in (DOMAIN pm) \cup {mid} |-> IF m = mid THEN rec ELSE pm[m]]

SetMax(S) == CHOOSE x \in S : \A y \in S : y <= x
SetMin(S) == CHOOSE x \in S : \A y \in S : x <= y

\* db.query(Meeting).filter_by(lead_id=l).order_by(created_at.desc()).first()
\* as an index into meetings, 0 when the lead has no row.
LatestMeeting(mt, l) ==
    LET rows == {i \in 1..Len(mt) : mt[i].lead_id = l}
    IN IF rows = {} THEN 0 ELSE SetMax(rows)

Turn(l, ch, dir, kind) == [lead |-> l, channel |-> ch, direction |-> dir, kind |-> kind]
Sent(l, ch, kind)      == [lead |-> l, channel |-> ch, kind |-> kind]

\* What a handler leaves behind: the new store and registry, the turns it
\* appended, the messages it handed to a channel, its notices to the approver.
Eff(pm, mt, st, ev, ne, turns, sent, notices) ==
    [pending |-> pm, meetings |-> mt, status |-> st, events |-> ev,
     nextEvent |-> ne, turns |-> turns, sent |-> sent, notices |-> notices]

\* BaseCommunicationHandler.send_to_lead with _validate_lead_contact of the
\* two handlers; ok is the outcome of the external send_message.
SendToLead(ch, l, kind, ok) ==
    LET valid == IF ch = "whatsapp" THEN contact[l].phone ELSE contact[l].email
        success == valid /\ ok
    IN [success |-> success,
        sent  |-> IF success THEN <<Sent(l, ch, kind)>> ELSE <<>>,
        turns |-> IF success THEN <<Turn(l, ch, "outbound", kind)>> ELSE <<>>]

NoSend == [success |-> FALSE, sent |-> <<>>, turns |-> <<>>]

\* TelegramBot.send_confirmation_to_lead: WhatsApp only; the handler records
\* the turn and the method stores it once more.
SendConfirmationToLead(l, ok) ==
    IF lastInbound[l] = "whatsapp"
    THEN LET r == SendToLead("whatsapp", l, "confirmation", ok)
         IN IF r.success
            THEN [r EXCEPT !.turns = @ \o <<Turn(l, "whatsapp", "outbound", "confirmation")>>]
            ELSE r
    ELSE NoSend

\* ------------------------------------------------ approval-UI callbacks
\* process_time_approval storing its meeting the way
\* handle_alternative_selection does: a new row on every approval, the lead's
\* existing row left as it is.
ProcessTimeApprovalInsert(pm, mid, idx, calOk, delOk, sendOk) ==
    IF mid \notin DOMAIN pm
    THEN Eff(pm, meetings, status, events, nextEvent, <<>>, <<>>, {"expired"})
    ELSE
    LET data  == pm[mid]
        slots == data.matching_slots
    IN
    IF idx >= Len(slots)
    THEN Eff(pm, meetings, status, events, nextEvent, <<>>, <<>>, {"invalid_slot"})
    ELSE
    LET t == slots[idx + 1]
        l == data.lead_id
    IN
    IF calOk
    THEN LET c == SendConfirmationToLead(l, sendOk)
         IN Eff(Remove(pm, mid),
                Append(meetings,
                       [lead_id |-> l, scheduled_time |-> t,
                        calendar_event_id |-> nextEvent, status |-> "confirmed"]),
                [status EXCEPT ![l] = "MEETING_SCHEDULED"],
                events \cup {nextEvent}, nextEvent + 1,
                c.turns, c.sent, {"meeting_confirmed"})
    ELSE Eff(Remove(pm, mid), meetings, status, events, nextEvent,
             <<>>, <<>>, {"calendar_failed"})

\* process_time_approval without its `if event_id`: the meeting is stored as
\* confirmed whatever create_meeting returned.
ProcessTimeApprovalIgnoresEventId(pm, mid, idx, calOk, delOk, sendOk) ==
    IF mid \notin DOMAIN pm
    THEN Eff(pm, meetings, status, events, nextEvent, <<>>, <<>>, {"expired"})
    ELSE IF idx >= Len(pm[mid].matching_slots)
    THEN Eff(pm, meetings, status, events, nextEvent, <<>>, <<>>, {"invalid_slot"})
    ELSE
    LET l   == pm[mid].lead_id
        eid == IF calOk THEN nextEvent ELSE NoEvent
    IN Eff(Remove(pm, mid),
           Append(meetings,
                  [lead_id |-> l, scheduled_time |-> pm[mid].matching_slots[idx + 1],
                   calendar_event_id |-> eid, status |-> "confirmed"]),
           [status EXCEPT ![l] = "MEETING_SCHEDULED"],
           IF calOk THEN events \cup {eid} ELSE events,
           IF calOk THEN nextEvent + 1 ELSE nextEvent,
           <<>>, <<>>, {"meeting_confirmed"})

\* TelegramBot.process_time_approval
ProcessTimeApproval(pm, mid, idx, calOk, delOk, sendOk) ==
    IF mid \notin DOMAIN pm
    THEN Eff(pm, meetings, status, events, nextEvent, <<>>, <<>>, {"expired"})
    ELSE
    LET data  == pm[mid]
        slots == data.matching_slots
    IN
    IF idx >= Len(slots)
    THEN Eff(pm, meetings, status, events, nextEvent, <<>>, <<>>, {"invalid_slot"})
    ELSE
    LET t  == slots[idx + 1]
        l  == data.lead_id
        ex == LatestMeeting(meetings, l)
        ev1 == IF ex # 0 /\ meetings[ex].calendar_event_id # NoEvent /\ delOk
               THEN events \ {meetings[ex].calendar_event_id}
               ELSE events
    IN
    IF calOk
    THEN LET eid == nextEvent
             mt1 == IF ex # 0
                    THEN [meetings EXCEPT ![ex] =
                            [@ EXCEPT !.scheduled_time = t,
                                      !.calendar_event_id = eid,
                                      !.status = "confirmed"]]
                    ELSE Append(meetings,
                            [lead_id |-> l, scheduled_time |-> t,
                             calendar_event_id |-> eid, status |-> "confirmed"])
             st1 == [status EXCEPT ![l] = "MEETING_SCHEDULED"]
             c   == SendConfirmationToLead(l, sendOk)
         IN Eff(Remove(pm, mid), mt1, st1, ev1 \cup {eid}, nextEvent + 1,
                c.turns, c.sent, {"meeting_confirmed"})
    ELSE Eff(Remove(pm, mid), meetings, status, ev1, nextEvent,
             <<>>, <<>>, {"calendar_failed"})

\* TelegramBot.send_alternative_time_to_lead: sends only through handlers the
\* bot object does not have, and stores no turn.
SendAlternativeTimeToLead(l, ok) ==
    IF lastInbound[l] = "whatsapp" /\ BotHasWhatsappHandler
    THEN SendToLead("whatsapp", l, "alternative", ok)
    ELSE IF lastInbound[l] = "email" /\ BotHasEmailHandler
    THEN SendToLead("email", l, "alternative", ok)
    ELSE NoSend

\* TelegramBot.handle_alternative_selection
HandleAlternativeSelection(pm, mid, idx, calOk, sendOk) ==
    IF mid \notin DOMAIN pm
    THEN Eff(pm, meetings, status, events, nextEvent, <<>>, <<>>, {"expired"})
    ELSE
    LET data == pm[mid]
        alts == data.alternative_slots
    IN
    IF idx >= Len(alts)
    THEN Eff(pm, meetings, status, events, nextEvent, <<>>, <<>>, {"invalid_slot"})
    ELSE
    LET t == alts[idx + 1]
        l == data.lead_id
    IN
    IF calOk
    THEN LET eid == nextEvent
             mt1 == Append(meetings,
                       [lead_id |-> l, scheduled_time |-> t,
                        calendar_event_id |-> eid, status |-> "confirmed"])
             st1 == [status EXCEPT ![l] = "MEETING_SCHEDULED"]
             c   == SendAlternativeTimeToLead(l, sendOk)
         IN Eff(Remove(pm, mid), mt1, st1, events \cup {eid}, nextEvent + 1,
                c.turns, c.sent, {"alternative_scheduled"})
    ELSE Eff(Remove(pm, mid), meetings, status, events, nextEvent,
             <<>>, <<>>, {"calendar_failed"})

\* TelegramBot.request_manager_time_input
RequestManagerTimeInput(pm, mid) ==
    IF mid \notin DOMAIN pm
    THEN Eff(pm, meetings, status, events, nextEvent, <<>>, <<>>, {"expired"})
    ELSE Eff(Put(pm, mid, [pm[mid] EXCEPT !.awaiting_manual_input = TRUE,
                                          !.manual_input_requested_at = clock]),
             meetings, status, events, nextEvent, <<>>, <<>>,
             {"manual_input_required"})

\* lead_availability[:2] entries that carry a parsed_datetime
ParsedOfTopTwo(avail) ==
    {i \in 1..Len(avail) : i <= 2 /\ avail[i].time # NoTime}

\* TelegramBot.show_alternative_times; alts is what the calendar suggests
\* around the lead's first two parsed preferences (de-duplicated, capped).
ShowAlternativeTimes(pm, mid, alts) ==
    IF mid \notin DOMAIN pm
    THEN Eff(pm, meetings, status, events, nextEvent, <<>>, <<>>, {"expired"})
    ELSE
    LET data == pm[mid]
        unique == IF ParsedOfTopTwo(data.lead_availability) = {} THEN <<>> ELSE alts
    IN
    IF unique # <<>>
    THEN Eff(Put(pm, mid, [data EXCEPT !.alternative_slots = unique]),
             meetings, status, events, nextEvent, <<>>, <<>>, {"alternatives"})
    ELSE RequestManagerTimeInput(pm, mid)

\* TelegramBot.process_meeting_decline
ProcessMeetingDecline(pm, mid, sendOk) ==
    IF mid \notin DOMAIN pm
    THEN Eff(pm, meetings, status, events, nextEvent, <<>>, <<>>, {"expired"})
    ELSE
    LET l   == pm[mid].lead_id
        st1 == [status EXCEPT ![l] = "NOT_INTERESTED"]
        ch  == lastInbound[l]
        s   == IF ch = "whatsapp" /\ BotHasWhatsappHandler
               THEN SendToLead("whatsapp", l, "decline", sendOk)
               ELSE IF ch = "email" /\ BotHasEmailHandler
               THEN SendToLead("email", l, "decline", sendOk)
               ELSE NoSend
        rec == IF ch # NoChannel
               THEN <<Turn(l, ch, "outbound", "decline")>>
               ELSE <<>>
    IN Eff(Remove(pm, mid), meetings, st1, events, nextEvent,
           s.turns \o rec, s.sent, {"declined"})

\* handle_callback without its look-up of the id in pending_meetings: the
\* token goes to the handler of its action, as handle_meeting_approval_callback
\* does, and the handler answers for the missing entry.
HandleCallbackUnchecked(action, mid, idx, calOk, delOk, sendOk, alts) ==
    IF mid \in DOMAIN pending /\ pending[mid].processing
    THEN Eff(pending, meetings, status, events, nextEvent, <<>>, <<>>,
             {"being_processed"})
    ELSE
    LET pm1 == IF mid \in DOMAIN pending
               THEN Put(pending, mid, [pending[mid] EXCEPT !.processing = TRUE])
               ELSE pending
    IN CASE action = "approve_time" ->
              ProcessTimeApproval(pm1, mid, idx, calOk, delOk, sendOk)
         [] action = "suggest_alt" ->
              ShowAlternativeTimes(pm1, mid, alts)
         [] action = "select_alt" ->
              HandleAlternativeSelection(pm1, mid, idx, calOk, sendOk)
         [] action \in {"custom_time", "manager_suggest"} ->
              RequestManagerTimeInput(pm1, mid)
         [] action = "decline" ->
              ProcessMeetingDecline(pm1, mid, sendOk)

\* handle_callback releasing the processing flag when the handler of the
\* action has returned and the negotiation is still in the registry.
HandleCallbackReleasesFlag(action, mid, idx, calOk, delOk, sendOk, alts) ==
    LET e == HandleCallbackUnchecked(action, mid, idx, calOk, delOk, sendOk, alts)
    IN IF mid \in DOMAIN e.pending /\ "being_processed" \notin e.notices
       THEN [e EXCEPT !.pending =
                Put(e.pending, mid, [e.pending[mid] EXCEPT !.processing = FALSE])]
       ELSE e

\* TelegramBot.handle_callback for the tokens the approval requests carry:
\* action:negotiation_id[:index].
HandleCallback(action, mid, idx, calOk, delOk, sendOk, alts) ==
    IF mid \notin DOMAIN pending
    THEN Eff(pending, meetings, status, events, nextEvent, <<>>, <<>>,
             {"already_processed"})
    ELSE IF pending[mid].processing
    THEN Eff(pending, meetings, status, events, nextEvent, <<>>, <<>>,
             {"being_processed"})
    ELSE
    LET pm1 == Put(pending, mid, [pending[mid] EXCEPT !.processing = TRUE])
    IN CASE action = "approve_time" ->
              ProcessTimeApproval(pm1, mid, idx, calOk, delOk, sendOk)
         [] action = "suggest_alt" ->
              ShowAlternativeTimes(pm1, mid, alts)
         [] action = "select_alt" ->
              HandleAlternativeSelection(pm1, mid, idx, calOk, sendOk)
         [] action \in {"custom_time", "manager_suggest"} ->
              RequestManagerTimeInput(pm1, mid)
         [] action = "decline" ->
              ProcessMeetingDecline(pm1, mid, sendOk)

\* ------------------------------------------------------ operation record
NoOp == [op |-> "init", action |-> "none", lead |-> NoLead, mid |-> NoMid,
         msg |-> "none", handled |-> FALSE, classified |-> FALSE,
         notices |-> {}]

\* The store and registry after a handler whose effect is e.
Apply(e, op) ==
    /\ pending'   = e.pending
    /\ meetings'  = e.meetings
    /\ status'    = e.status
    /\ events'    = e.events
    /\ nextEvent' = e.nextEvent
    /\ lastOp'    = [op EXCEPT !.notices = e.notices]

\* The alternatives the calendar can suggest (weekdays, not in the past).
AltInputs == {<<>>, <<1, MaxTime>>}

\* Slot indexes a button can carry.
Indexes == 0..1

CallbackOp(action, mid) ==
    [NoOp EXCEPT !.op = "callback", !.action = action, !.mid = mid,
                 !.lead = IF mid \in DOMAIN pending THEN pending[mid].lead_id ELSE NoLead]

\* Outcomes of the external calls of one handler run: calendar create_meeting,
\* calendar delete_event, channel send.  All succeed, or one of them fails.
Outcome(calOk, delOk, sendOk) == [calOk |-> calOk, delOk |-> delOk, sendOk |-> sendOk]

Outcomes ==
    { Outcome(TRUE, TRUE, TRUE), Outcome(FALSE, TRUE, TRUE),
      Outcome(TRUE, FALSE, TRUE), Outcome(TRUE, TRUE, FALSE) }

ApproveTime ==
    \E mid \in Mids, idx \in Indexes, o \in Outcomes :
        /\ Apply(HandleCallback("approve_time", mid, idx, o.calOk, o.delOk, o.sendOk, <<>>),
                 CallbackOp("approve_time", mid))
        /\ UNCHANGED <<contact, lastInbound, nextId, extVars>>

SelectAlt ==
    \E mid \in Mids, idx \in Indexes, o \in {x \in Outcomes : x.delOk} :
        /\ Apply(HandleCallback("select_alt", mid, idx, o.calOk, TRUE, o.sendOk, <<>>),
                 CallbackOp("select_alt", mid))
        /\ UNCHANGED <<contact, lastInbound, nextId, extVars>>

SuggestAlt ==
    \E mid \in Mids, alts \in AltInputs :
        /\ Apply(HandleCallback("suggest_alt", mid, NoIdx, FALSE, TRUE, TRUE, alts),
                 CallbackOp("suggest_alt", mid))
        /\ UNCHANGED <<contact, lastInbound, nextId, extVars>>

ManagerSuggest ==
    \E mid \in Mids, action \in {"custom_time", "manager_suggest"} :
        /\ Apply(HandleCallback(action, mid, NoIdx, FALSE, TRUE, TRUE, <<>>),
                 CallbackOp(action, mid))
        /\ UNCHANGED <<contact, lastInbound, nextId, extVars>>

Decline ==
    \E mid \in Mids, sendOk \in BOOLEAN :
        /\ Apply(HandleCallback("decline", mid, NoIdx, FALSE, TRUE, sendOk, <<>>),
                 CallbackOp("decline", mid))
        /\ UNCHANGED <<contact, lastInbound, nextId, extVars>>

\* ------------------------------------------------------- inbound replies
\* Texts a lead can send; MessageClean is message.strip().lower().
Messages == {"yes", " Two ", "hello"}

MessageClean(m) == IF m = " Two " THEN "two" ELSE m

\* LeadProcessor._handle_lead_time_selection: the index a bare selection names.
SelectionIndex(clean) ==
    IF clean \in {"1", "2", "3", "one", "two", "three"}
    THEN IF clean \in {"1", "one"} THEN 0
         ELSE IF clean \in {"2", "two"} THEN 1
         ELSE 2
    ELSE IF clean \in {"yes", "yeah", "yep", "sure", "okay", "ok", "confirm", "confirmed"}
    THEN 0
    ELSE NoIdx

\* self.telegram_bot._create_or_update_meeting(lead, selected_time, meeting_id):
\* class TelegramBot defines no such attribute, the lookup raises AttributeError.
CreateOrUpdateMeeting(l, t, mid) ==
    [raised |-> TRUE, success |-> FALSE, meetings |-> meetings,
     status |-> status, events |-> events, nextEvent |-> nextEvent]

\* The negotiations the loop of _handle_lead_time_selection stops at: those
\* of the lead that are awaiting_lead_selection (it takes the first).
AwaitingSelection(l) ==
    {m \in DOMAIN pending :
        pending[m].lead_id = l /\ pending[m].awaiting_lead_selection}

\* _handle_lead_time_selection with the failure branch attached to the range
\* test instead of the scheduling result: an index outside the stored list is
\* answered with the scheduling-error message and reported as handled.
HandleLeadTimeSelectionRangeError(l, msg, ch, sendOk) ==
    LET sel  == SelectionIndex(MessageClean(msg))
        keep == [handled |-> FALSE,
                 eff |-> Eff(pending, meetings, status, events, nextEvent,
                             <<>>, <<>>, {})]
        cand == AwaitingSelection(l)
    IN
    IF sel = NoIdx THEN keep
    ELSE IF cand = {} THEN keep
    ELSE
    LET mid   == SetMin(cand)
        times == pending[mid].parsed_times
    IN
    IF ~(sel < Len(times))
    THEN LET s == SendToLead(ch, l, "schedule_error", sendOk)
         IN [handled |-> TRUE,
             eff |-> Eff(pending, meetings, status, events, nextEvent,
                         s.turns, s.sent, {})]
    ELSE keep

\* LeadProcessor._handle_lead_time_selection; handled is its return value.
\* _get_channel_handler finds a handler for both channels.
HandleLeadTimeSelection(l, msg, ch, sendOk) ==
    LET sel  == SelectionIndex(MessageClean(msg))
        keep == [handled |-> FALSE,
                 eff |-> Eff(pending, meetings, status, events, nextEvent,
                             <<>>, <<>>, {})]
        cand == AwaitingSelection(l)
    IN
    IF sel = NoIdx THEN keep
    ELSE IF cand = {} THEN keep
    ELSE
    LET mid   == SetMin(cand)
        times == pending[mid].parsed_times
    IN
    IF ~(sel < Len(times)) THEN keep
    ELSE
    LET r == CreateOrUpdateMeeting(l, times[sel + 1], mid)
    IN
    IF r.raised THEN keep
    ELSE IF r.success
    THEN LET s == SendToLead(ch, l, "confirmation", sendOk)
         IN [handled |-> TRUE,
             eff |-> Eff(Remove(pending, mid), r.meetings, r.status, r.events,
                         r.nextEvent,
                         s.turns \o <<Turn(l, ch, "outbound", "confirmation")>>,
                         s.sent, {"lead_selected"})]
    ELSE LET s == SendToLead(ch, l, "schedule_error", sendOk)
         IN [handled |-> TRUE,
             eff |-> Eff(pending, r.meetings, r.status, r.events, r.nextEvent,
                         s.turns, s.sent, {})]

\* GPTHandler.analyze_message_intent results, one per way the handler can go.
Intent(sent, req, interest, stage, spec, conf) ==
    [sentiment |-> sent, requesting_meeting |-> req,
     expressing_interest |-> interest, stage |-> stage,
     specified_time |-> spec, confirming_time |-> conf]

Intents ==
    { Intent("positive", "yes", "yes", "scheduling", "yes", "no"),
      Intent("positive", "yes", "yes", "general", "no", "no"),
      Intent("positive", "no", "yes", "confirmation_yes", "no", "yes"),
      Intent("negative", "no", "no", "objection", "no", "no"),
      Intent("neutral", "no", "no", "general", "no", "no") }

\* What analyze_message_intent can return for a text: a bare selection word
\* reads as a confirmation or as nothing in particular, free text as anything.
IntentsOf(msg) ==
    IF SelectionIndex(MessageClean(msg)) = NoIdx
    THEN Intents
    ELSE { i \in Intents : i.requesting_meeting = "no" /\ i.sentiment # "negative" }

\* LeadProcessor._handle_meeting_flow: which sub-flow consumes the message.
MeetingFlowBranch(intent) ==
    IF intent.specified_time = "yes" /\ intent.stage = "scheduling"
    THEN "availability"
    ELSE IF intent.requesting_meeting = "yes" /\ intent.specified_time # "yes"
    THEN "ask"
    ELSE IF intent.confirming_time = "yes"
    THEN "confirm"
    ELSE "none"

\* _update_lead_status_from_intent with its last two tests in the other order:
\* expressed interest is looked at before the meeting request.
StatusFromIntentInterestFirst(intent) ==
    IF intent.sentiment = "negative" THEN "NOT_INTERESTED"
    ELSE IF intent.expressing_interest = "yes" THEN "INTERESTED"
    ELSE IF intent.requesting_meeting = "yes" THEN "MEETING_REQUESTED"
    ELSE "RESPONDED"

\* LeadProcessor._update_lead_status_from_intent
StatusFromIntent(intent) ==
    IF intent.sentiment = "negative" THEN "NOT_INTERESTED"
    ELSE IF intent.requesting_meeting = "yes" THEN "MEETING_REQUESTED"
    ELSE IF intent.expressing_interest = "yes" THEN "INTERESTED"
    ELSE "RESPONDED"

\* GPTHandler.parse_availability_slots results: candidates with a parsed time
\* (NoTime when parsed_datetime is missing) and a confidence.
Cand(t, c) == [time |-> t, conf |-> c]

AvailInputs ==
    { <<>>,
      <<Cand(MaxTime, 1), Cand(1, 1)>> }

\* Busy days of the calendar at the time of the query.
BusyInputs == {{}, {1}}

\* The sort key with its two parts in the other order: time first.
SlotBeforeTimeFirst(a, b) ==
    \/ a.time < b.time
    \/ a.time = b.time /\ a.conf >= b.conf

\* sort(key=lambda x: (-x['confidence'], x['proposed_time']))
SlotBefore(a, b) ==
    \/ a.conf > b.conf
    \/ a.conf = b.conf /\ a.time <= b.time

RECURSIVE SortSlots(_)
SortSlots(s) ==
    IF Len(s) <= 1 THEN s
    ELSE LET rest == SortSlots(Tail(s))
             x    == Head(s)
             k    == Cardinality({i \in 1..Len(rest) : ~SlotBefore(x, rest[i])})
         IN SubSeq(rest, 1, k) \o <<x>> \o SubSeq(rest, k + 1, Len(rest))

\* CalendarHandler.find_matching_slots; the result keeps proposed_time only.
FindMatchingSlots(avail, busy) ==
    LET ok(c) == /\ c.time # NoTime
                 /\ Weekday(c.time) < 5
                 /\ ~(c.time < Now)
                 /\ c.time \notin busy
        kept   == SelectSeq(avail, ok)
        sorted == SortSlots(kept)
    IN [i \in 1..Len(sorted) |-> sorted[i].time]

\* The record TelegramBot.request_meeting_approval stores (absent keys read
\* through .get() are given their defaults).
NewNegotiation(l, avail, matching) ==
    [lead_id |-> l, lead_availability |-> avail, matching_slots |-> matching,
     alternative_slots |-> <<>>, parsed_times |-> <<>>,
     awaiting_manual_input |-> FALSE, awaiting_lead_selection |-> FALSE,
     manual_input_requested_at |-> NoTime, processing |-> FALSE]

\* LeadProcessor._handle_availability_fallback put in the place of the approval
\* request: the first stated time is booked in the calendar at once and the
\* meeting is stored as confirmed, with no negotiation and no approver.
HandleAvailabilityFallback(l, ch, avail, busy, sendOk, tgOk) ==
    LET s == SendToLead(ch, l, "fallback_confirmation", sendOk)
        tr == s.turns \o <<Turn(l, ch, "outbound", "fallback_confirmation")>>
    IN IF avail # <<>> /\ avail[1].time # NoTime
       THEN Eff(pending,
                Append(meetings,
                       [lead_id |-> l, scheduled_time |-> avail[1].time,
                        calendar_event_id |-> nextEvent, status |-> "confirmed"]),
                [status EXCEPT ![l] = "MEETING_SCHEDULED"],
                events \cup {nextEvent}, nextEvent + 1, tr, s.sent, {})
       ELSE Eff(pending, meetings, status, events, nextEvent, tr, s.sent, {})

\* TelegramBot.request_meeting_approval (the definition that is in force: the
\* second one of the class body).  The negotiation is stored before the
\* request is sent, the result of send_message is dropped and nothing is
\* raised; tgOk is the result of send_message after its retries.
RequestMeetingApproval(l, avail, matching, tgOk) ==
    [raised  |-> FALSE,
     pending |-> Put(pending, nextId, NewNegotiation(l, avail, matching)),
     notices |-> IF tgOk THEN {"approval_request"} ELSE {}]

\* LeadProcessor._process_lead_availability
ProcessLeadAvailability(l, ch, avail, busy, sendOk, tgOk) ==
    IF avail = <<>>
    THEN LET s == SendToLead(ch, l, "clarification", sendOk)
         IN Eff(pending, meetings, status, events, nextEvent,
                s.turns, s.sent, {})
    ELSE
    LET matching == FindMatchingSlots(avail, busy)
        st1  == [status EXCEPT ![l] = "MEETING_REQUESTED"]
        r    == RequestMeetingApproval(l, avail, matching, tgOk)
        kind == IF r.raised THEN "ack_fallback" ELSE "ack_checking"
        s    == SendToLead(ch, l, kind, sendOk)
    IN Eff(r.pending, meetings, st1, events, nextEvent,
           s.turns \o <<Turn(l, ch, "outbound", kind)>>, s.sent,
           r.notices)

\* LeadProcessor._ask_for_availability
AskForAvailability(l, ch, sendOk) ==
    LET s == SendToLead(ch, l, "availability_request", sendOk)
    IN Eff(pending, meetings, [status EXCEPT ![l] = "MEETING_REQUESTED"],
           events, nextEvent,
           s.turns \o <<Turn(l, ch, "outbound", "availability_request")>>,
           s.sent, {})

\* _handle_time_confirmation taking the lead's word for it: the lead becomes
\* MEETING_SCHEDULED whether or not a meeting row is there to confirm.
HandleTimeConfirmationWithoutMeeting(l, ch, sendOk) ==
    LET s  == SendToLead(ch, l, "time_confirmation", sendOk)
        tr == s.turns \o <<Turn(l, ch, "outbound", "time_confirmation")>>
    IN Eff(pending, meetings, [status EXCEPT ![l] = "MEETING_SCHEDULED"],
           events, nextEvent, tr, s.sent, {})

\* LeadProcessor._handle_time_confirmation
HandleTimeConfirmation(l, ch, sendOk) ==
    LET ex == LatestMeeting(meetings, l)
        s  == SendToLead(ch, l, "time_confirmation", sendOk)
        tr == s.turns \o <<Turn(l, ch, "outbound", "time_confirmation")>>
    IN IF ex # 0 /\ meetings[ex].status # "confirmed"
       THEN Eff(pending, [meetings EXCEPT ![ex].status = "confirmed"],
                [status EXCEPT ![l] = "MEETING_SCHEDULED"], events, nextEvent,
                tr, s.sent, {})
       ELSE Eff(pending, meetings, [status EXCEPT ![l] = "INTERESTED"],
                events, nextEvent, tr, s.sent, {})

\* process_lead_response with the status update moved out of its
\* `if not meeting_handled`: the intent rule also runs after the meeting
\* sub-flow has consumed the message.
ProcessLeadResponseAlwaysUpdates(l, msg, ch, intent, avail, busy, sendOk, tgOk) ==
    LET sel == HandleLeadTimeSelection(l, msg, ch, sendOk)
    IN
    IF sel.handled
    THEN [handled |-> TRUE, classified |-> FALSE, created |-> FALSE,
          consumer |-> "selection", eff |-> sel.eff]
    ELSE
    LET branch == MeetingFlowBranch(intent)
        e == CASE branch = "availability" ->
                    ProcessLeadAvailability(l, ch, avail, busy, sendOk, tgOk)
               [] branch = "ask" -> AskForAvailability(l, ch, sendOk)
               [] branch = "confirm" -> HandleTimeConfirmation(l, ch, sendOk)
               [] branch = "none" ->
                    LET s == SendToLead(ch, l, "reply", sendOk)
                    IN Eff(pending, meetings, status, events, nextEvent,
                           s.turns, s.sent, {})
    IN [handled |-> FALSE, classified |-> TRUE,
        created |-> (branch = "availability" /\ avail # <<>>),
        consumer |-> branch,
        eff |-> [e EXCEPT !.status = [@ EXCEPT ![l] = StatusFromIntent(intent)]]]

\* LeadProcessor.process_lead_response after the inbound turn is stored.
ProcessLeadResponse(l, msg, ch, intent, avail, busy, sendOk, tgOk) ==
    LET sel == HandleLeadTimeSelection(l, msg, ch, sendOk)
    IN
    IF sel.handled
    THEN [handled |-> TRUE, classified |-> FALSE, created |-> FALSE,
          consumer |-> "selection", eff |-> sel.eff]
    ELSE
    LET branch == MeetingFlowBranch(intent)
        e == CASE branch = "availability" ->
                    ProcessLeadAvailability(l, ch, avail, busy, sendOk, tgOk)
               [] branch = "ask" -> AskForAvailability(l, ch, sendOk)
               [] branch = "confirm" -> HandleTimeConfirmation(l, ch, sendOk)
               [] branch = "none" ->
                    LET s == SendToLead(ch, l, "reply", sendOk)
                    IN Eff(pending, meetings,
                           [status EXCEPT ![l] = StatusFromIntent(intent)],
                           events, nextEvent, s.turns, s.sent, {})
    IN [handled |-> FALSE, classified |-> TRUE,
        created |-> (branch = "availability" /\ avail # <<>>),
        consumer |-> branch, eff |-> e]

\* One inbound reply: WebhookManager._process_whatsapp_message (or the email
\* route) finds the lead and runs process_lead_response on the text.
Inbound(l, msg, ch, sendOk, intent, avail, busy, tgOk) ==
    LET r == ProcessLeadResponse(l, msg, ch, intent, avail, busy, sendOk, tgOk)
        created == r.created
    IN /\ IF ch = "whatsapp" THEN contact[l].phone ELSE contact[l].email
       /\ created => nextId <= MaxNeg
       /\ Apply(r.eff,
                [NoOp EXCEPT !.op = "inbound", !.lead = l, !.msg = msg,
                             !.mid = IF SelectionIndex(MessageClean(msg)) # NoIdx
                                        /\ AwaitingSelection(l) # {}
                                     THEN SetMin(AwaitingSelection(l))
                                     ELSE NoMid,
                             !.handled = r.handled,
                             !.classified = r.classified])
       /\ lastInbound' = [lastInbound EXCEPT ![l] = ch]
       /\ nextId' = IF created THEN nextId + 1 ELSE nextId
       /\ UNCHANGED contact

InboundReply ==
    \E l \in Leads, msg \in Messages, ch \in Channels, sendOk \in BOOLEAN :
     \E intent \in IntentsOf(msg) :
      \E avail \in (IF MeetingFlowBranch(intent) = "availability"
                    THEN AvailInputs ELSE {<<>>}) :
        \E busy \in (IF avail # <<>> THEN BusyInputs ELSE {{}}) :
         \E tgOk \in (IF avail # <<>> THEN BOOLEAN ELSE {TRUE}) :
            /\ Inbound(l, msg, ch, sendOk, intent, avail, busy, tgOk)
            /\ UNCHANGED extVars

\* Every combination of the fields the handlers read from the NLU result
\* (stage is compared with 'scheduling' only).
AllIntents ==
    { Intent(sent, req, interest, stage, spec, conf) :
        sent \in {"positive", "neutral", "negative"},
        req \in {"yes", "no"},
        interest \in {"yes", "no", "unclear"},
        stage \in {"scheduling", "general"},
        spec \in {"yes", "no"},
        conf \in {"yes", "no"} }

NoIntent == [intent |-> Intent("none", "none", "none", "none", "none", "none"),
             consumer |-> "init"]

\* An inbound reply with any NLU result, recorded with the part of
\* process_lead_response that consumed it.
ClassifiedReply ==
    \E l \in Leads, msg \in {"hello"}, sendOk \in BOOLEAN :
     \E intent \in AllIntents :
      \E avail \in (IF MeetingFlowBranch(intent) = "availability"
                    THEN AvailInputs ELSE {<<>>}) :
        LET r == ProcessLeadResponse(l, msg, "whatsapp", intent, avail, {}, sendOk, TRUE)
        IN /\ Inbound(l, msg, "whatsapp", sendOk, intent, avail, {}, TRUE)
           /\ lastIntent' = [intent |-> intent, consumer |-> r.consumer]
           /\ UNCHANGED <<outreachVars, rateVars, sweepVars, runtimeVars>>

\* ---------------------------------------------------- manager free text
\* Parse results of the manager's text (GPTHandler.parse_availability_slots).
SuggestInputs ==
    { <<>>,
      <<Cand(0, 1)>>,
      <<Cand(NoTime, 1), Cand(MaxTime, 1), Cand(0, 1), Cand(2, 1)>> }

\* The same list taken over every suggestion instead of the first three.
FutureOfTopThreeUnlimited(suggested) ==
    LET ok(c) == c.time # NoTime /\ c.time > Now
        kept == SelectSeq(suggested, ok)
    IN [i \in 1..Len(kept) |-> kept[i].time]

\* suggested_times[:3] entries with a parsed time that is in the future
FutureOfTopThree(suggested) ==
    LET top == SubSeq(suggested, 1, IF Len(suggested) < 3 THEN Len(suggested) ELSE 3)
        ok(c) == c.time # NoTime /\ c.time > Now
        kept == SelectSeq(top, ok)
    IN [i \in 1..Len(kept) |-> kept[i].time]

\* The 3600 seconds a request for manual input stays open, in hours.
ManualInputWindow == 1

\* The search loop without its test of manual_input_requested_at: every
\* negotiation awaiting manual input, whatever the age of its request.
AwaitingManualInputAnyAge ==
    {m \in DOMAIN pending : pending[m].awaiting_manual_input}

\* The entries the search loop of handle_manual_time_input accepts: awaiting
\* manual input, the request less than an hour old (an entry without
\* manual_input_requested_at counts as requested now).
AwaitingManualInput ==
    {m \in DOMAIN pending :
        /\ pending[m].awaiting_manual_input
        /\ (IF pending[m].manual_input_requested_at = NoTime
            THEN 0
            ELSE clock - pending[m].manual_input_requested_at) < ManualInputWindow}

\* TelegramBot.handle_manual_time_input
HandleManualTimeInput(suggested, sendOk) ==
    LET waiting == AwaitingManualInput
        none == Eff(pending, meetings, status, events, nextEvent, <<>>, <<>>, {})
    IN
    IF waiting = {} THEN none
    ELSE
    LET mid  == SetMin(waiting)
        data == pending[mid]
        l    == data.lead_id
    IN
    IF suggested = <<>> THEN [none EXCEPT !.notices = {"format_not_understood"}]
    ELSE
    LET parsed == FutureOfTopThree(suggested)
    IN
    IF parsed = <<>> THEN [none EXCEPT !.notices = {"no_future_times"}]
    ELSE
    LET s == SendToLead("whatsapp", l, "time_options", sendOk)
    IN
    IF s.success
    THEN Eff(Put(pending, mid,
                 [data EXCEPT !.parsed_times = parsed,
                              !.awaiting_manual_input = FALSE,
                              !.awaiting_lead_selection = TRUE]),
             meetings, status, events, nextEvent,
             s.turns \o <<Turn(l, "whatsapp", "outbound", "time_options")>>,
             s.sent, {"options_sent"})
    ELSE [none EXCEPT !.notices = {"options_send_failed"}]

ManagerText ==
    \E suggested \in SuggestInputs, sendOk \in BOOLEAN :
        LET waiting == AwaitingManualInput
        IN /\ Apply(HandleManualTimeInput(suggested, sendOk),
                    [NoOp EXCEPT !.op = "manager_text",
                                 !.mid = IF waiting = {} THEN NoMid ELSE SetMin(waiting)])
           /\ UNCHANGED <<contact, lastInbound, nextId, extVars>>

\* The hours of wall-clock time the negotiation model follows.
MaxRequestAge == 1

\* The wall clock reaches the next hour while a request for manual input is
\* open (nothing else in the negotiation reads the clock).
RequestHourPasses ==
    /\ clock < MaxRequestAge
    /\ \E m \in DOMAIN pending : pending[m].awaiting_manual_input
    /\ clock' = clock + 1
    /\ lastOp' = [NoOp EXCEPT !.op = "hour_passes"]
    /\ UNCHANGED <<contact, status, meetings, lastInbound, pending, nextId,
                   events, nextEvent, followUp, lastOut, replyVars, rateVars,
                   sweepVars, runtimeVars>>

\* ------------------------------------------------------ calendar webhooks
\* db.query(Meeting).filter_by(calendar_event_id=event_id).first()
MeetingByEvent(eid) ==
    LET rows == {i \in 1..Len(meetings) : meetings[i].calendar_event_id = eid}
    IN IF rows = {} THEN 0 ELSE SetMin(rows)

\* WebhookManager._handle_meeting_accepted
HandleMeetingAccepted(eid) ==
    LET m == MeetingByEvent(eid)
    IN IF m = 0
       THEN Eff(pending, meetings, status, events, nextEvent, <<>>, <<>>, {})
       ELSE Eff(pending, [meetings EXCEPT ![m].status = "confirmed"],
                [status EXCEPT ![meetings[m].lead_id] = "MEETING_SCHEDULED"],
                events, nextEvent, <<>>, <<>>, {})

\* WebhookManager._handle_meeting_rescheduled
HandleMeetingRescheduled(eid, t) ==
    LET m == MeetingByEvent(eid)
    IN IF m = 0
       THEN Eff(pending, meetings, status, events, nextEvent, <<>>, <<>>, {})
       ELSE Eff(pending, [meetings EXCEPT ![m].scheduled_time = t],
                [status EXCEPT ![meetings[m].lead_id] = "MEETING_SCHEDULED"],
                events, nextEvent, <<>>, <<>>, {})

EventIds == 1..nextEvent

MeetingAccepted ==
    \E eid \in EventIds :
        /\ Apply(HandleMeetingAccepted(eid),
                 [NoOp EXCEPT !.op = "meeting_accepted"])
        /\ UNCHANGED <<contact, lastInbound, nextId, extVars>>

MeetingRescheduled ==
    \E eid \in EventIds, t \in {MaxTime} :
        /\ Apply(HandleMeetingRescheduled(eid, t),
                 [NoOp EXCEPT !.op = "meeting_rescheduled"])
        /\ UNCHANGED <<contact, lastInbound, nextId, extVars>>

\* ---------------------------------------------------------- rate limiter
\* timedelta(days=1) in hours, the unit of clock.
HoursPerDay == 24

\* datetime.date() of a time
DateOf(t) == t \div HoursPerDay

\* Config.WHATSAPP_HOURLY_LIMIT and Config.WHATSAPP_DAILY_LIMIT
HourlyLimit == 2
DailyLimit  == 5

\* WhatsAppRateLimiter._load_usage_data without a usage file
DefaultUsage ==
    [daily_count |-> 0, hourly_count |-> 0, last_reset |-> 0,
     hourly_reset |-> 0, total_sent |-> 0]

\* WhatsAppRateLimiter._reset_counters_if_needed
ResetCountersIfNeeded(u, now) ==
    LET u1 == IF DateOf(now) > DateOf(u.last_reset)
              THEN [u EXCEPT !.daily_count = 0, !.last_reset = now]
              ELSE u
    IN IF now >= u1.hourly_reset + 1
       THEN [u1 EXCEPT !.hourly_count = 0, !.hourly_reset = now]
       ELSE u1

\* WhatsAppRateLimiter.can_send_message
CanSendMessage(u, now) ==
    LET u1 == ResetCountersIfNeeded(u, now)
    IN IF u1.daily_count >= DailyLimit
       THEN [can_send |-> FALSE, reason |-> "Daily limit reached", usage |-> u1]
       ELSE IF u1.hourly_count >= HourlyLimit
       THEN [can_send |-> FALSE, reason |-> "Hourly limit reached", usage |-> u1]
       ELSE [can_send |-> TRUE, reason |-> "OK", usage |-> u1]

\* Config.WHATSAPP_RATE_LIMITER is None and nothing assigns it:
\* WhatsAppHandler.rate_limiter is falsy.
RateLimiterConfigured == FALSE

\* WhatsAppHandler.check_rate_limit
CheckRateLimit ==
    IF RateLimiterConfigured
    THEN CanSendMessage(usage, clock)
    ELSE [can_send |-> TRUE, reason |-> "No rate limit", usage |-> usage]

\* WhatsAppHandler.send_message: the rate check, then the post to the API
\* whose outcome is ok.  No counter of the limiter is written on success.
WhatsappSendMessage(ok) ==
    LET c == CheckRateLimit
    IN [can_send |-> c.can_send, success |-> c.can_send /\ ok, usage |-> c.usage]

\* ------------------------------------------------- outreach and follow-up
\* Config.EMAIL_ENABLED, Config.WHATSAPP_ENABLED
EmailEnabled    == TRUE
WhatsappEnabled == TRUE

\* next_follow_up_days of the first contact and of a follow-up
FirstFollowUpDays  == 2
RepeatFollowUpDays == 7

negotiationVars ==
    <<meetings, lastInbound, pending, nextId, events, nextEvent, lastOp>>

NoOut == [op |-> "init", lead |-> NoLead, sent |-> <<>>, notices |-> {}]

\* What a scheduler operation leaves behind.
OutEff(st, fu, sent, notices, raised) ==
    [status |-> st, followUp |-> fu, sent |-> sent, notices |-> notices,
     raised |-> raised]

\* LeadProcessor._can_use_email / _can_use_whatsapp (the processor has a
\* WhatsApp handler exactly when WhatsApp is enabled)
CanUseEmail(l)    == contact[l].email /\ EmailEnabled
CanUseWhatsapp(l) == contact[l].phone /\ WhatsappEnabled

\* LeadProcessor._try_whatsapp_outreach
TryWhatsappOutreach(l, kind, ok) ==
    LET c == CheckRateLimit
    IN IF ~c.can_send
       THEN [success |-> FALSE, sent |-> <<>>, notices |-> {"rate_limited"}]
       ELSE LET r == SendToLead("whatsapp", l, kind, WhatsappSendMessage(ok).success)
            IN [success |-> r.success, sent |-> r.sent, notices |-> {}]

\* _update_lead_status without its follow-up branch: the status is written,
\* next_follow_up_date is left as it was.
UpdateLeadStatusKeepsFollowUp(st, fu, l, new, days) ==
    [status |-> [st EXCEPT ![l] = new], followUp |-> fu]

\* LeadProcessor._update_lead_status
UpdateLeadStatus(st, fu, l, new, days) ==
    [status   |-> [st EXCEPT ![l] = new],
     followUp |-> IF days # 0
                  THEN [fu EXCEPT ![l] = clock + days * HoursPerDay]
                  ELSE fu]

\* process_new_lead with the status update moved out of `if send_success`:
\* the lead is marked CONTACTED whether or not a send succeeded, and the
\* operator is not told.
ProcessNewLeadMarksContacted(l, genOk, emailOk, waOk) ==
    IF ~genOk
    THEN OutEff(status, followUp, <<>>, {}, TRUE)
    ELSE
    LET e == IF CanUseEmail(l)
             THEN SendToLead("email", l, "outreach", emailOk)
             ELSE NoSend
        w == IF CanUseWhatsapp(l)
             THEN TryWhatsappOutreach(l, "outreach", waOk)
             ELSE [success |-> FALSE, sent |-> <<>>, notices |-> {}]
        u == UpdateLeadStatus(status, followUp, l, "CONTACTED", FirstFollowUpDays)
    IN OutEff(u.status, u.followUp, e.sent \o w.sent, w.notices, FALSE)

\* LeadProcessor.process_new_lead; genOk: _generate_outreach_message returned.
ProcessNewLead(l, genOk, emailOk, waOk) ==
    IF ~genOk
    THEN OutEff(status, followUp, <<>>, {}, TRUE)
    ELSE
    LET e == IF CanUseEmail(l)
             THEN SendToLead("email", l, "outreach", emailOk)
             ELSE NoSend
        w == IF CanUseWhatsapp(l)
             THEN TryWhatsappOutreach(l, "outreach", waOk)
             ELSE [success |-> FALSE, sent |-> <<>>, notices |-> {}]
    IN IF e.success \/ w.success
       THEN LET u == UpdateLeadStatus(status, followUp, l, "CONTACTED",
                                      FirstFollowUpDays)
            IN OutEff(u.status, u.followUp, e.sent \o w.sent, w.notices, FALSE)
       ELSE OutEff(status, followUp, <<>>,
                   w.notices \cup {"outreach_failed"}, FALSE)

\* Outcomes of the external calls of one process_new_lead run: message
\* generation, email send, WhatsApp post.  All succeed, one fails, or both
\* sends fail.
OutreachOutcomes ==
    { [genOk |-> TRUE,  emailOk |-> TRUE,  waOk |-> TRUE],
      [genOk |-> FALSE, emailOk |-> TRUE,  waOk |-> TRUE],
      [genOk |-> TRUE,  emailOk |-> FALSE, waOk |-> TRUE],
      [genOk |-> TRUE,  emailOk |-> TRUE,  waOk |-> FALSE],
      [genOk |-> TRUE,  emailOk |-> FALSE, waOk |-> FALSE] }

\* The store after a scheduler operation whose effect is e.
ApplyOut(e, op) ==
    /\ status'   = e.status
    /\ followUp' = e.followUp
    /\ lastOut'  = [op EXCEPT !.sent = e.sent, !.notices = e.notices]
    /\ UNCHANGED <<contact, clock, negotiationVars, replyVars, rateVars, sweepVars>>

\* LeadAutomationSystem.check_new_leads hands every lead that is NEW to
\* process_new_lead.
NewLead ==
    \E l \in DOMAIN status, o \in OutreachOutcomes :
        /\ status[l] = "NEW"
        /\ ApplyOut(ProcessNewLead(l, o.genOk, o.emailOk, o.waOk),
                    [NoOut EXCEPT !.op = "new_lead", !.lead = l])
        /\ UNCHANGED runtimeVars

\* LeadProcessor.process_bulk_whatsapp_outreach: every NEW lead with a phone
\* number; ok[l]: the message was generated and the post succeeded.
ProcessBulkWhatsappOutreach(ok) ==
    LET leads == {l \in DOMAIN status : status[l] = "NEW" /\ contact[l].phone}
        r(l)  == TryWhatsappOutreach(l, "outreach", ok[l])
        done  == {l \in leads : r(l).success}
        RECURSIVE SentOf(_)
        SentOf(S) == IF S = {} THEN <<>>
                     ELSE LET l == SetMin(S) IN r(l).sent \o SentOf(S \ {l})
    IN OutEff([l \in DOMAIN status |->
                  IF l \in done THEN "CONTACTED" ELSE status[l]],
              [l \in DOMAIN status |->
                  IF l \in done THEN clock + FirstFollowUpDays * HoursPerDay
                  ELSE followUp[l]],
              SentOf(leads), {}, FALSE)

BulkOutreach ==
    \E ok \in [DOMAIN status -> BOOLEAN] :
        /\ WhatsappEnabled
        /\ ApplyOut(ProcessBulkWhatsappOutreach(ok),
                    [NoOut EXCEPT !.op = "bulk_outreach"])
        /\ UNCHANGED runtimeVars

\* _get_leads_for_followup without its status filter: every lead whose
\* follow-up date has come.
GetLeadsForFollowupAnyStatus ==
    {l \in DOMAIN status : followUp[l] # NoTime /\ followUp[l] <= clock}

\* LeadProcessor._get_leads_for_followup
GetLeadsForFollowup ==
    {l \in DOMAIN status :
        /\ followUp[l] # NoTime
        /\ followUp[l] <= clock
        /\ status[l] \in {"CONTACTED", "FOLLOW_UP"}}

\* LeadProcessor._send_followup_message
SendFollowupMessage(l, emailOk, waOk) ==
    LET e == IF CanUseEmail(l)
             THEN SendToLead("email", l, "follow_up", emailOk)
             ELSE NoSend
    IN IF e.success
       THEN [success |-> TRUE, sent |-> e.sent, notices |-> {}]
       ELSE IF CanUseWhatsapp(l)
       THEN TryWhatsappOutreach(l, "follow_up", waOk)
       ELSE [success |-> FALSE, sent |-> <<>>, notices |-> {}]

\* LeadProcessor.process_follow_ups run without another writer in between:
\* _process_single_followup for every selected lead, then the commit.
ProcessFollowUps(emailOk, waOk) ==
    LET leads == GetLeadsForFollowup
        r(l)  == SendFollowupMessage(l, emailOk[l], waOk[l])
        done  == {l \in leads : r(l).success}
        RECURSIVE SentOf(_)
        SentOf(S) == IF S = {} THEN <<>>
                     ELSE LET l == SetMin(S) IN r(l).sent \o SentOf(S \ {l})
    IN OutEff([l \in DOMAIN status |->
                  IF l \in done THEN "FOLLOW_UP" ELSE status[l]],
              [l \in DOMAIN status |->
                  IF l \in done THEN clock + RepeatFollowUpDays * HoursPerDay
                  ELSE followUp[l]],
              SentOf(leads),
              UNION {r(l).notices : l \in leads}, FALSE)

FollowUps ==
    \E emailOk \in [DOMAIN status -> BOOLEAN], waOk \in [DOMAIN status -> BOOLEAN] :
        /\ ApplyOut(ProcessFollowUps(emailOk, waOk),
                    [NoOut EXCEPT !.op = "follow_ups"])
        /\ UNCHANGED runtimeVars

\* A day goes by between two cycles of the scheduler.
DayPasses ==
    /\ clock + HoursPerDay <= MaxDays * HoursPerDay
    /\ clock' = clock + HoursPerDay
    /\ lastOut' = [NoOut EXCEPT !.op = "day_passes"]
    /\ UNCHANGED <<contact, status, followUp, negotiationVars, replyVars, runtimeVars, rateVars,
                   sweepVars>>

\* A contacted lead answers with a text that is no meeting matter: the
\* generic branch of process_lead_response.
OutreachReply ==
    \E l \in DOMAIN status :
     \E intent \in {i \in Intents : MeetingFlowBranch(i) = "none"} :
        /\ status[l] # "NEW"
        /\ Inbound(l, "hello", "whatsapp", TRUE, intent, <<>>, {}, TRUE)
        /\ lastOut' = [NoOut EXCEPT !.op = "inbound", !.lead = l]
        /\ UNCHANGED <<followUp, clock, replyVars, runtimeVars, rateVars, sweepVars>>

\* ------------------------------------------- the sweep, step by step
\* process_follow_ups holds one session from its query to the commit at the
\* end of `with db_session()`; it awaits message generation and sends for
\* each lead in between, while webhook threads and the approval-UI thread
\* write leads through sessions of their own.
NoSweep == [phase |-> "idle", queue |-> <<>>, loaded |-> <<>>, dirty |-> <<>>]

RECURSIVE SeqOfSet(_)
SeqOfSet(S) == IF S = {} THEN <<>>
               ELSE <<SetMin(S)>> \o SeqOfSet(S \ {SetMin(S)})

\* _get_leads_for_followup: the rows are loaded into the session.
SweepSelect ==
    /\ sweep.phase = "idle"
    /\ GetLeadsForFollowup # {}
    /\ sweep' = [phase  |-> "running",
                 queue  |-> SeqOfSet(GetLeadsForFollowup),
                 loaded |-> [l \in GetLeadsForFollowup |-> status[l]],
                 dirty  |-> <<>>]
    /\ lastOut' = [NoOut EXCEPT !.op = "followup_select"]
    /\ UNCHANGED <<contact, status, followUp, clock, negotiationVars,
                   replyVars, runtimeVars, rateVars>>

\* _process_single_followup for the next loaded lead: the send, then
\* _update_lead_status on the loaded object and db.add; nothing is flushed yet.
SweepLead ==
    \E emailOk \in BOOLEAN, waOk \in BOOLEAN :
        /\ sweep.phase = "running"
        /\ sweep.queue # <<>>
        /\ LET l == Head(sweep.queue)
               r == SendFollowupMessage(l, emailOk, waOk)
           IN /\ sweep' = [sweep EXCEPT
                             !.queue = Tail(@),
                             !.dirty = IF r.success
                                       THEN Put(@, l, clock + RepeatFollowUpDays * HoursPerDay)
                                       ELSE @]
              /\ lastOut' = [NoOut EXCEPT !.op = "followup_send", !.lead = l,
                                          !.sent = r.sent, !.notices = r.notices]
        /\ UNCHANGED <<contact, status, followUp, clock, negotiationVars,
                       replyVars, runtimeVars, rateVars>>

\* session.commit() of db_session: one UPDATE per modified lead, carrying the
\* columns whose value differs from the loaded one.
SweepCommit ==
    /\ sweep.phase = "running"
    /\ sweep.queue = <<>>
    /\ status' = [l \in DOMAIN status |->
                     IF l \in DOMAIN sweep.dirty /\ sweep.loaded[l] # "FOLLOW_UP"
                     THEN "FOLLOW_UP" ELSE status[l]]
    /\ followUp' = [l \in DOMAIN followUp |->
                       IF l \in DOMAIN sweep.dirty THEN sweep.dirty[l]
                       ELSE followUp[l]]
    /\ sweep' = NoSweep
    /\ lastOut' = [NoOut EXCEPT !.op = "followup_commit"]
    /\ UNCHANGED <<contact, clock, negotiationVars, replyVars, runtimeVars, rateVars>>

\* The other steps of the scheduler loop run when no sweep is under way.
SweepNewLead == sweep.phase = "idle" /\ NewLead

SweepDayPasses == sweep.phase = "idle" /\ DayPasses

\* A reply of the lead at any moment: a refusal, or stated availability that
\* opens a negotiation.
SweepReply ==
    \E l \in DOMAIN status :
     \E intent \in {i \in Intents : i.sentiment = "negative"
                                     \/ MeetingFlowBranch(i) = "availability"} :
      \E avail \in (IF MeetingFlowBranch(intent) = "availability"
                    THEN AvailInputs \ {<<>>} ELSE {<<>>}) :
        /\ status[l] # "NEW"
        /\ Inbound(l, "hello", "whatsapp", TRUE, intent, avail, {}, TRUE)
        /\ UNCHANGED extVars

\* ------------------------------------------------------- WhatsApp sends
\* One WhatsAppHandler.send_message, from whichever handler sends.
SendWhatsapp ==
    \E ok \in BOOLEAN :
        LET r == WhatsappSendMessage(ok)
        IN /\ posted <= HourlyLimit
           /\ usage' = r.usage
           /\ posted' = IF r.success THEN posted + 1 ELSE posted
           /\ lastOut' = [NoOut EXCEPT
                            !.op = "whatsapp_send",
                            !.notices = IF ~r.can_send THEN {"rate_limited"}
                                        ELSE IF r.success THEN {"posted"}
                                        ELSE {"post_failed"}]
           /\ UNCHANGED <<contact, status, followUp, clock, negotiationVars,
                          replyVars, runtimeVars, sweepVars>>

\* The wall clock reaches the next hour.
HourPasses ==
    /\ clock < MaxHours
    /\ clock' = clock + 1
    /\ posted' = 0
    /\ lastOut' = [NoOut EXCEPT !.op = "hour_passes"]
    /\ UNCHANGED <<contact, status, followUp, usage, negotiationVars,
                   replyVars, runtimeVars, sweepVars>>

\* ------------------------------------------------------------ db_session
\* max_retries and initial_delay of db_session; delays are counted in units
\* of initial_delay.
MaxRetries   == 5
InitialDelay == 1

\* What the i-th execution of a `with db_session()` body does: it returns and
\* the commit succeeds ("ok"), it raises OperationalError 'database is locked'
\* ("locked"), it returns and the commit raises that error ("commit_locked"),
\* it raises another OperationalError ("db_error") or another exception
\* ("error").
BodyOutcomes == {"ok", "locked", "commit_locked", "db_error", "error"}

NoTxn ==
    [phase |-> "idle", script |-> <<>>, attempt |-> 0, delay |-> InitialDelay,
     opened |-> 0, closed |-> 0, runs |-> 0, commits |-> 0, rollbacks |-> 0,
     slept |-> 0, gen |-> "new", result |-> "none"]

\* The generator of db_session run from its start, or from the top of the
\* next iteration of its for loop, to `yield session`.
GenToYield(t) ==
    [t EXCEPT !.opened = @ + 1, !.gen = "yielded"]

\* The generator of db_session resumed at `yield session`: by next() when
\* signal is "ok" or "commit_locked" (the commit then succeeds or raises the
\* locked error), by throw() of the body's exception otherwise.  It runs to
\* its next yield, to its end, or to the exception it raises.
GenResume(t, signal) ==
    IF signal = "ok"
    THEN [t EXCEPT !.commits = @ + 1, !.closed = @ + 1, !.gen = "returned"]
    ELSE IF signal \in {"locked", "commit_locked", "db_error"}
    THEN LET t1 == [t EXCEPT !.rollbacks = @ + 1]
         IN IF signal # "db_error" /\ t.attempt < MaxRetries - 1
            THEN GenToYield([t1 EXCEPT !.slept = @ + t.delay,
                                       !.delay = 2 * @,
                                       !.closed = @ + 1,
                                       !.attempt = @ + 1])
            ELSE [t1 EXCEPT !.closed = @ + 1,
                            !.gen = IF signal = "db_error" THEN "raised_db_error"
                                    ELSE "raised_locked"]
    ELSE [t EXCEPT !.rollbacks = @ + 1, !.closed = @ + 1, !.gen = "raised_error"]

\* _GeneratorContextManager.__exit__ after the body ended with outcome o: the
\* generator is resumed once; one that returns or raises settles the block,
\* one that yields again makes __exit__ raise RuntimeError ("generator didn't
\* stop").  genClosed: this interpreter's __exit__ closes the generator
\* before raising, which runs the generator's `finally`.
CmExit(t, o, genClosed) ==
    LET g == GenResume(t, o)
    IN IF g.gen = "returned"
       THEN [g EXCEPT !.result = "committed"]
       ELSE IF g.gen = "yielded"
       THEN [g EXCEPT !.result = "raised_runtime",
                      !.closed = IF genClosed THEN @ + 1 ELSE @,
                      !.gen = IF genClosed THEN "closed" ELSE @]
       ELSE [g EXCEPT !.result = g.gen]

\* `with db_session() as db:` is entered: __enter__ runs the generator to its
\* first yield.  s[i] is what the i-th execution of the body would do.
SessionEnter ==
    \E s \in [1..MaxRetries -> BodyOutcomes] :
        /\ txn.phase = "idle"
        /\ txn' = [GenToYield(txn) EXCEPT !.phase = "body", !.script = s]
        /\ UNCHANGED <<contact, status, negotiationVars, replyVars, outreachVars,
                   rateVars, sweepVars, loop, workers>>

\* The body of the with statement is executed.
SessionBody ==
    /\ txn.phase = "body"
    /\ txn' = [txn EXCEPT !.phase = "exit", !.runs = @ + 1]
    /\ UNCHANGED <<contact, status, negotiationVars, replyVars, outreachVars,
                   rateVars, sweepVars, loop, workers>>

\* The body has ended: __exit__ runs, then control is back in the caller.
SessionExit ==
    \E genClosed \in BOOLEAN :
        /\ txn.phase = "exit"
        /\ txn' = [CmExit(txn, txn.script[txn.runs], genClosed) EXCEPT !.phase = "done"]
        /\ UNCHANGED <<contact, status, negotiationVars, replyVars, outreachVars,
                       rateVars, sweepVars, loop, workers>>

\* ------------------------------------------------------ scheduler loop
\* LeadAutomationSystem.main_loop: the step the loop is at, is_running, and
\* whether the wait that led to this cycle was the error delay.
NoLoop == [pc |-> "check_new_leads", running |-> TRUE, after_error |-> FALSE]

\* main_loop whose `except Exception` is missing: an exception of a step
\* leaves the coroutine, and asyncio.run returns.
MainLoopExceptPropagates(lp) == [lp EXCEPT !.pc = "stopped"]

\* main_loop, `except Exception as e`: the error is printed and the loop goes
\* to asyncio.sleep(60).
MainLoopExcept(lp) == [lp EXCEPT !.pc = "error_delay"]

\* check_new_leads: the Excel file yields a NEW lead, or none, and
\* process_new_lead runs for it; its exception reaches main_loop.
LoopNewLeads ==
    \E l \in {x \in DOMAIN status : status[x] = "NEW"} \cup {NoLead},
       o \in OutreachOutcomes :
        /\ loop.running
        /\ loop.pc = "check_new_leads"
        /\ LET e == IF l = NoLead
                    THEN OutEff(status, followUp, <<>>, {}, ~o.genOk)
                    ELSE ProcessNewLead(l, o.genOk, o.emailOk, o.waOk)
           IN /\ ApplyOut(e, [NoOut EXCEPT !.op = "new_lead", !.lead = l])
              /\ loop' = IF e.raised THEN MainLoopExcept(loop)
                         ELSE [loop EXCEPT !.pc = "follow_ups"]
        /\ UNCHANGED <<txn, workers>>

\* process_existing_leads: the follow-up sweep; raised: an exception leaves
\* process_follow_ups, whose session is rolled back.
LoopFollowUps ==
    \E emailOk \in [DOMAIN status -> BOOLEAN], waOk \in [DOMAIN status -> BOOLEAN],
       raised \in BOOLEAN :
        /\ loop.running
        /\ loop.pc = "follow_ups"
        /\ ApplyOut(IF raised THEN OutEff(status, followUp, <<>>, {}, TRUE)
                    ELSE ProcessFollowUps(emailOk, waOk),
                    [NoOut EXCEPT !.op = "follow_ups"])
        /\ loop' = IF raised THEN MainLoopExcept(loop)
                   ELSE [loop EXCEPT !.pc = "bulk_outreach"]
        /\ UNCHANGED <<txn, workers>>

\* The bulk WhatsApp outreach of the cycle; raised: an exception leaves
\* process_bulk_whatsapp_outreach, whose session is rolled back.
LoopBulkOutreach ==
    \E ok \in [DOMAIN status -> BOOLEAN], raised \in BOOLEAN :
        /\ loop.running
        /\ loop.pc = "bulk_outreach"
        /\ ApplyOut(IF raised \/ ~WhatsappEnabled
                    THEN OutEff(status, followUp, <<>>, {}, raised)
                    ELSE ProcessBulkWhatsappOutreach(ok),
                    [NoOut EXCEPT !.op = "bulk_outreach"])
        /\ loop' = IF raised THEN MainLoopExcept(loop)
                   ELSE [loop EXCEPT !.pc = "sleep"]
        /\ UNCHANGED <<txn, workers>>

\* asyncio.sleep(900) at the end of a cycle, or asyncio.sleep(60) in the
\* except branch, returns and `while self.is_running` is evaluated.
LoopWait ==
    /\ loop.running
    /\ loop.pc \in {"sleep", "error_delay"}
    /\ loop' = [loop EXCEPT !.pc = "check_new_leads",
                            !.after_error = (loop.pc = "error_delay")]
    /\ lastOut' = [NoOut EXCEPT !.op = "wait"]
    /\ UNCHANGED <<contact, status, followUp, clock, negotiationVars, replyVars,
                   rateVars, sweepVars, txn, workers>>

\* handle_shutdown on SIGINT or SIGTERM: is_running is cleared and
\* sys.exit(0) ends the main thread.
LoopStop ==
    /\ loop.running
    /\ loop' = [loop EXCEPT !.running = FALSE, !.pc = "stopped"]
    /\ lastOut' = [NoOut EXCEPT !.op = "shutdown"]
    /\ UNCHANGED <<contact, status, followUp, clock, negotiationVars, replyVars,
                   rateVars, sweepVars, txn, workers>>

\* ---------------------------------------------- replies on worker threads
\* WebhookManager._process_whatsapp_message starts one thread per message;
\* two of them carry two replies.
Workers == {"w1", "w2"}

NoWorker ==
    [pc |-> "idle", lead |-> NoLead, intent |-> NoIntent.intent, avail |-> <<>>,
     fresh |-> "none", loaded |-> "none", solo |-> "none"]

\* process_async: the thread reads fresh_lead through a session of its own.
\* solo is the status the lead has after this reply when nothing else runs.
ReplyStart ==
    \E w \in Workers, l \in DOMAIN status, intent \in Intents :
     \E avail \in (IF MeetingFlowBranch(intent) = "availability"
                   THEN AvailInputs ELSE {<<>>}) :
        /\ workers[w].pc = "idle"
        /\ status[l] # "NEW"
        /\ contact[l].phone
        /\ workers' = [workers EXCEPT ![w] =
              [pc |-> "loaded", lead |-> l, intent |-> intent, avail |-> avail,
               fresh |-> status[l], loaded |-> "none",
               solo |-> ProcessLeadResponse(l, "hello", "whatsapp", intent, avail,
                                            {}, TRUE, TRUE).eff.status[l]]]
        /\ UNCHANGED <<contact, status, negotiationVars, replyVars, outreachVars,
                       rateVars, sweepVars, txn, loop>>

\* process_lead_response up to its first commit: db.merge(lead) copies the
\* attributes of fresh_lead onto the row loaded by the handler's session, the
\* inbound turn is added, and db.commit() flushes both.
ReplyStore ==
    \E w \in Workers :
        LET l == workers[w].lead
        IN /\ workers[w].pc = "loaded"
           /\ status' = [status EXCEPT ![l] = workers[w].fresh]
           /\ lastInbound' = [lastInbound EXCEPT ![l] = "whatsapp"]
           /\ workers' = [workers EXCEPT ![w].pc = "stored"]
           /\ UNCHANGED <<contact, meetings, pending, nextId, events, nextEvent,
                          lastOp, replyVars, outreachVars, rateVars, sweepVars,
                          txn, loop>>

\* analyze_message_intent has returned; the first read of the lead, which the
\* commit expired, loads the row again.
ReplyClassified ==
    \E w \in Workers :
        /\ workers[w].pc = "stored"
        /\ workers' = [workers EXCEPT ![w].pc = "classified",
                                      ![w].loaded = status[workers[w].lead]]
        /\ UNCHANGED <<contact, status, negotiationVars, replyVars, outreachVars,
                       rateVars, sweepVars, txn, loop>>

\* The rest of process_lead_response: the meeting flow or the intent rule,
\* the reply, and the commit, whose UPDATE carries the status only when the
\* value assigned differs from the one loaded.
ReplyCommit ==
    \E w \in Workers :
        LET l == workers[w].lead
            r == ProcessLeadResponse(l, "hello", "whatsapp", workers[w].intent,
                                     workers[w].avail, {}, TRUE, TRUE)
            x == r.eff.status[l]
        IN /\ workers[w].pc = "classified"
           /\ r.created => nextId <= MaxNeg
           /\ Apply([r.eff EXCEPT !.status =
                        [status EXCEPT ![l] = IF x # workers[w].loaded
                                              THEN x ELSE status[l]]],
                    [NoOp EXCEPT !.op = "inbound", !.lead = l, !.msg = "hello",
                                 !.handled = r.handled,
                                 !.classified = r.classified])
           /\ nextId' = IF r.created THEN nextId + 1 ELSE nextId
           /\ workers' = [workers EXCEPT ![w].pc = "done"]
           /\ UNCHANGED <<contact, lastInbound, replyVars, outreachVars,
                          rateVars, sweepVars, txn, loop>>

\* ----------------------------------------------------------- the system
\* Leads that negotiate were reached on a channel and answer on either one:
\* they have a phone number and a verified email.
ContactProfiles ==
    { [phone |-> TRUE, email |-> TRUE] }

Init ==
    /\ contact \in [Leads -> ContactProfiles]
    /\ status = [l \in Leads |-> "NEW"]
    /\ meetings = <<>>
    /\ lastInbound = [l \in Leads |-> NoChannel]
    /\ pending = [m \in {} |-> NoOp]
    /\ nextId = 1
    /\ events = {}
    /\ nextEvent = 1
    /\ lastOp = NoOp
    /\ lastIntent = NoIntent
    /\ followUp = [l \in Leads |-> NoTime]
    /\ clock = 0
    /\ lastOut = NoOut
    /\ usage = DefaultUsage
    /\ posted = 0
    /\ sweep = NoSweep
    /\ txn = NoTxn
    /\ loop = NoLoop
    /\ workers = [w \in Workers |-> NoWorker]

Next ==
    \/ InboundReply
    \/ ApproveTime
    \/ SelectAlt
    \/ SuggestAlt
    \/ ManagerSuggest
    \/ Decline
    \/ ManagerText
    \/ RequestHourPasses
    \/ MeetingAccepted
    \/ MeetingRescheduled

Spec == Init /\ [][Next]_vars

\* The leads the scheduler works on: any contact profile for the first,
\* phone and verified email for the others.
OutreachProfiles == [phone : BOOLEAN, email : BOOLEAN]

OutreachInit ==
    /\ contact \in {c \in [OutreachLeads -> OutreachProfiles] :
                        \A l \in OutreachLeads \ {1} : c[l].phone /\ c[l].email}
    /\ status = [l \in OutreachLeads |-> "NEW"]
    /\ followUp = [l \in OutreachLeads |-> NoTime]
    /\ lastInbound = [l \in OutreachLeads |-> NoChannel]
    /\ meetings = <<>>
    /\ pending = [m \in {} |-> NoOp]
    /\ nextId = 1
    /\ events = {}
    /\ nextEvent = 1
    /\ lastOp = NoOp
    /\ lastIntent = NoIntent
    /\ clock = 0
    /\ lastOut = NoOut
    /\ usage = DefaultUsage
    /\ posted = 0
    /\ sweep = NoSweep
    /\ txn = NoTxn
    /\ loop = NoLoop
    /\ workers = [w \in Workers |-> NoWorker]

OutreachNext ==
    \/ NewLead
    \/ BulkOutreach
    \/ FollowUps
    \/ DayPasses
    \/ OutreachReply

OutreachSpec == OutreachInit /\ [][OutreachNext]_vars

\* The sweep interleaved with replies and with the manager's buttons.
SweepNext ==
    \/ SweepNewLead
    \/ SweepDayPasses
    \/ SweepSelect
    \/ SweepLead
    \/ SweepCommit
    \/ SweepReply
    \/ ApproveTime
    \/ Decline

SweepSpec == Init /\ [][SweepNext]_vars

\* WhatsApp sends against the wall clock.
RateNext ==
    \/ SendWhatsapp
    \/ HourPasses

RateSpec == Init /\ [][RateNext]_vars

\* Inbound replies alone, over every NLU result.
IntentNext == ClassifiedReply

IntentSpec == Init /\ [][IntentNext]_vars

\* One logical operation inside db_session, for every course its executions
\* can take.
SessionNext ==
    \/ SessionEnter
    \/ SessionBody
    \/ SessionExit

SessionSpec == Init /\ [][SessionNext]_vars

\* The scheduler loop with the wall clock and a shutdown signal.  Every step
\* of a cycle returns or raises, and every sleep ends.
LoopNext ==
    \/ LoopNewLeads
    \/ LoopFollowUps
    \/ LoopBulkOutreach
    \/ LoopWait
    \/ LoopStop
    \/ DayPasses

LoopSpec ==
    /\ Init
    /\ [][LoopNext]_vars
    /\ WF_vars(LoopNewLeads \/ LoopFollowUps \/ LoopBulkOutreach \/ LoopWait)

\* A lead is contacted and then answers twice; each reply is processed on a
\* thread of its own.
RaceNext ==
    \/ NewLead
    \/ ReplyStart
    \/ ReplyStore
    \/ ReplyClassified
    \/ ReplyCommit

RaceSpec == Init /\ [][RaceNext]_vars

\* ------------------------------------------------------------ properties
\* C1: after any sequence of negotiation actions every lead has at most one
\* meeting row whose status is tentative or confirmed.
C1_AtMostOneActiveMeeting ==
    \A l \in Leads :
        Cardinality({i \in 1..Len(meetings) :
                        /\ meetings[i].lead_id = l
                        /\ meetings[i].status \in {"tentative", "confirmed"}}) <= 1

\* C1 case: a second approval for a lead that already had a confirmed meeting
\* stored its slot in that row: two calendar events were created, one row exists.
C1_Witness ==
    /\ lastOp.op = "callback"
    /\ lastOp.action = "approve_time"
    /\ "meeting_confirmed" \in lastOp.notices
    /\ nextEvent > 2
    /\ Len(meetings) = 1
    /\ meetings[1].lead_id = lastOp.lead
    /\ meetings[1].status = "confirmed"

\* C2: a meeting row becomes confirmed only in a manager's approve-slot or
\* select-alternative action on a negotiation of that lead, and a lead becomes
\* MEETING_SCHEDULED only in such an action or while it holds a meeting that
\* such an action confirmed and booked in the calendar; no inbound message and
\* no other event confirms a meeting by itself.
C2_ConfirmedOnlyByManagerAction ==
    [][ LET byManager(l) ==
                /\ lastOp'.op = "callback"
                /\ lastOp'.action \in {"approve_time", "select_alt"}
                /\ lastOp'.lead = l
        IN /\ \A i \in 1..Len(meetings') :
                (/\ meetings'[i].status = "confirmed"
                 /\ (i > Len(meetings) \/ meetings[i].status # "confirmed"))
                => byManager(meetings'[i].lead_id)
           /\ \A l \in Leads :
                (status'[l] = "MEETING_SCHEDULED" /\ status[l] # "MEETING_SCHEDULED")
                => \/ byManager(l)
                   \/ \E i \in 1..Len(meetings) :
                        /\ meetings[i].lead_id = l
                        /\ meetings[i].status = "confirmed"
                        /\ meetings[i].calendar_event_id # NoEvent
      ]_vars

\* C2 case: the manager approved a slot, the meeting is confirmed and the lead
\* MEETING_SCHEDULED.
C2_Witness ==
    /\ lastOp.op = "callback"
    /\ lastOp.action = "approve_time"
    /\ "meeting_confirmed" \in lastOp.notices
    /\ status[lastOp.lead] = "MEETING_SCHEDULED"
    /\ \E i \in 1..Len(meetings) :
          meetings[i].lead_id = lastOp.lead /\ meetings[i].status = "confirmed"

\* C3: a manager action whose negotiation id is absent from the Registry is a
\* no-op with an 'already processed' notice: leads, meetings, calendar and
\* Registry are unchanged (a second approve after the first one removed the
\* negotiation creates or changes no meeting).
C3_AbsentNegotiationIsNoOp ==
    [][ (lastOp'.op = "callback" /\ lastOp'.mid \notin DOMAIN pending)
        => /\ lastOp'.notices = {"already_processed"}
           /\ pending' = pending
           /\ meetings' = meetings
           /\ status' = status
           /\ events' = events
      ]_vars

\* C3 case: approve was invoked again on a negotiation that an earlier action
\* removed after a meeting had been stored.
C3_Witness ==
    /\ lastOp.op = "callback"
    /\ lastOp.action = "approve_time"
    /\ lastOp.mid < nextId
    /\ lastOp.mid \notin DOMAIN pending
    /\ lastOp.notices = {"already_processed"}
    /\ meetings # <<>>

\* C4: every action on a negotiation (approval-UI callback, manager free text,
\* the lead's slot selection) checks the processing flag first; when the flag
\* is set it sends 'already being processed' and changes nothing.
C4_ProcessingFlagChecked ==
    [][ (/\ lastOp'.op \in {"callback", "manager_text", "inbound"}
         /\ lastOp'.mid \in DOMAIN pending
         /\ pending[lastOp'.mid].processing)
        => /\ "being_processed" \in lastOp'.notices
           /\ pending' = pending
           /\ meetings' = meetings
           /\ lastOp'.op # "inbound" => status' = status
      ]_vars

\* C5: whenever a callback action on a negotiation has finished and the
\* negotiation is still in the Registry, its processing flag is false.
C5_ProcessingFlagReleased ==
    (lastOp.op = "callback" /\ lastOp.mid \in DOMAIN pending)
    => ~pending[lastOp.mid].processing

\* C6: for every negotiation in the Registry and every index within its
\* matched slots, approving that slot with a successful calendar creation ends
\* with exactly one confirmed meeting of the lead, at the slot's time and with
\* the new event id, the lead MEETING_SCHEDULED and the negotiation removed.
C6_ApproveSchedulesExactlyOne ==
    \A mid \in DOMAIN pending :
      \A idx \in 0..(Len(pending[mid].matching_slots) - 1) :
        \A delOk \in BOOLEAN, sendOk \in BOOLEAN :
          LET e == HandleCallback("approve_time", mid, idx, TRUE, delOk, sendOk, <<>>)
              l == pending[mid].lead_id
              confirmed == {i \in 1..Len(e.meetings) :
                               /\ e.meetings[i].lead_id = l
                               /\ e.meetings[i].status = "confirmed"}
          IN /\ Cardinality(confirmed) = 1
             /\ \A i \in confirmed :
                   /\ e.meetings[i].scheduled_time = pending[mid].matching_slots[idx + 1]
                   /\ e.meetings[i].calendar_event_id = nextEvent
             /\ e.status[l] = "MEETING_SCHEDULED"
             /\ mid \notin DOMAIN e.pending

\* C7: when the calendar creation fails during approve slot, the lead's status
\* and meeting rows are unchanged, the error is reported, the negotiation stays
\* in the Registry and its processing flag is cleared.
C7_CalendarFailureKeepsNegotiation ==
    \A mid \in DOMAIN pending :
      \A idx \in 0..(Len(pending[mid].matching_slots) - 1) :
        \A delOk \in BOOLEAN, sendOk \in BOOLEAN :
          ~pending[mid].processing =>
            LET e == HandleCallback("approve_time", mid, idx, FALSE, delOk, sendOk, <<>>)
            IN /\ e.status = status
               /\ e.meetings = meetings
               /\ "calendar_failed" \in e.notices
               /\ mid \in DOMAIN e.pending
               /\ ~e.pending[mid].processing

\* C8: when a negotiation of the lead is awaiting_lead_selection and the lead
\* replies with a bare selection whose index is within the stored times, the
\* meeting is confirmed at that time, the lead becomes MEETING_SCHEDULED, a
\* confirmation is sent, the negotiation is removed and the message is not
\* classified.
C8_LeadSelectionConfirms ==
    \A l \in Leads, msg \in Messages, ch \in Channels :
      \A intent \in IntentsOf(msg) :
        LET sel  == SelectionIndex(MessageClean(msg))
            cand == AwaitingSelection(l)
        IN (/\ sel # NoIdx
            /\ cand # {}
            /\ sel < Len(pending[SetMin(cand)].parsed_times))
           => LET mid == SetMin(cand)
                  t   == pending[mid].parsed_times[sel + 1]
                  r   == ProcessLeadResponse(l, msg, ch, intent, <<>>, {}, TRUE, TRUE)
              IN /\ r.handled
                 /\ ~r.classified
                 /\ r.eff.status[l] = "MEETING_SCHEDULED"
                 /\ mid \notin DOMAIN r.eff.pending
                 /\ \E i \in 1..Len(r.eff.meetings) :
                       /\ r.eff.meetings[i].lead_id = l
                       /\ r.eff.meetings[i].status = "confirmed"
                       /\ r.eff.meetings[i].scheduled_time = t
                 /\ \E j \in 1..Len(r.eff.sent) :
                       r.eff.sent[j] = Sent(l, ch, "confirmation")

\* C9: a reply that is no selection word, or whose index is outside the stored
\* times, or that finds no negotiation of the lead awaiting_lead_selection, is
\* not a selection: no negotiation in the Registry and no meeting is changed
\* and the message goes on to intent classification.
C9_NotASelectionFallsThrough ==
    [][ LET l    == lastOp'.lead
            sel  == SelectionIndex(MessageClean(lastOp'.msg))
            cand == AwaitingSelection(l)
        IN (/\ lastOp'.op = "inbound"
            /\ \/ sel = NoIdx
               \/ cand = {}
               \/ ~(sel < Len(pending[SetMin(cand)].parsed_times)))
           => /\ ~lastOp'.handled
              /\ lastOp'.classified
              /\ meetings' = meetings
              /\ \A m \in DOMAIN pending :
                    m \in DOMAIN pending' /\ pending'[m] = pending[m]
      ]_vars

\* C9 case: the lead answered "two" while the negotiation awaiting the lead's
\* selection stores a single time; the reply was classified.
C9_Witness ==
    /\ lastOp.op = "inbound"
    /\ lastOp.msg = " Two "
    /\ lastOp.classified
    /\ lastOp.mid \in DOMAIN pending
    /\ pending[lastOp.mid].awaiting_lead_selection
    /\ Len(pending[lastOp.mid].parsed_times) = 1

\* C10: when the manager declines a negotiation that is in the Registry, the
\* lead becomes NOT_INTERESTED, the decline message is sent on the channel of
\* the lead's last inbound turn and recorded as an outbound turn, and the
\* negotiation is removed.
C10_DeclineSendsMessage ==
    \A mid \in DOMAIN pending :
      ~pending[mid].processing =>
        LET e  == HandleCallback("decline", mid, NoIdx, FALSE, TRUE, TRUE, <<>>)
            l  == pending[mid].lead_id
            ch == lastInbound[l]
        IN /\ e.status[l] = "NOT_INTERESTED"
           /\ mid \notin DOMAIN e.pending
           /\ \E j \in 1..Len(e.sent) : e.sent[j] = Sent(l, ch, "decline")
           /\ \E j \in 1..Len(e.turns) : e.turns[j] = Turn(l, ch, "outbound", "decline")

\* C11: when the dispatch of the approval request fails (send_message returns
\* false after its retries), no negotiation for the request remains in the
\* Registry and the lead is sent the fallback acknowledgment that enumerates
\* the stated availability, not the 'checking calendar' acknowledgment.
C11_DispatchFailureLeavesNoNegotiation ==
    \A l \in Leads, ch \in Channels, busy \in BusyInputs :
      \A avail \in AvailInputs \ {<<>>} :
        LET e == ProcessLeadAvailability(l, ch, avail, busy, TRUE, FALSE)
        IN /\ e.pending = pending
           /\ \E j \in 1..Len(e.sent) : e.sent[j] = Sent(l, ch, "ack_fallback")
           /\ \A j \in 1..Len(e.sent) : e.sent[j].kind # "ack_checking"

\* C12: every change of a lead's status made by any operation is one of the
\* edges NEW -> CONTACTED, CONTACTED -> {RESPONDED, NOT_INTERESTED, INTERESTED,
\* MEETING_REQUESTED}, {RESPONDED, NOT_INTERESTED, INTERESTED,
\* MEETING_REQUESTED} -> MEETING_SCHEDULED, CONTACTED -> FOLLOW_UP and
\* FOLLOW_UP -> FOLLOW_UP; no operation produces another edge.
C12_OnlyListedStatusEdges ==
    [][ LET replied == {"RESPONDED", "NOT_INTERESTED", "INTERESTED",
                        "MEETING_REQUESTED"}
            edges == {<<"NEW", "CONTACTED">>, <<"CONTACTED", "FOLLOW_UP">>,
                      <<"FOLLOW_UP", "FOLLOW_UP">>}
                     \cup ({"CONTACTED"} \X replied)
                     \cup (replied \X {"MEETING_SCHEDULED"})
        IN \A l \in Leads :
              status'[l] # status[l] => <<status[l], status'[l]>> \in edges
      ]_vars

\* C13: when an inbound message reaches the generic status update, the new
\* status follows the strict priority, for every combination of intent
\* fields: negative sentiment gives NOT_INTERESTED; otherwise a meeting
\* request gives MEETING_REQUESTED; otherwise expressed interest gives
\* INTERESTED; otherwise RESPONDED.
C13_StatusByStrictPriority ==
    [][ (lastOp'.op = "inbound" /\ lastIntent'.consumer = "none")
        => LET i == lastIntent'.intent
           IN status'[lastOp'.lead] =
                IF i.sentiment = "negative" THEN "NOT_INTERESTED"
                ELSE IF i.requesting_meeting = "yes" THEN "MEETING_REQUESTED"
                ELSE IF i.expressing_interest = "yes" THEN "INTERESTED"
                ELSE "RESPONDED"
      ]_vars

\* C13 case: a reply that both requests a meeting and expresses interest, not
\* negative, reached the generic update and the lead is MEETING_REQUESTED.
C13_Witness ==
    /\ lastOp.op = "inbound"
    /\ lastIntent.consumer = "none"
    /\ lastIntent.intent.sentiment = "positive"
    /\ lastIntent.intent.requesting_meeting = "yes"
    /\ lastIntent.intent.expressing_interest = "yes"
    /\ status[lastOp.lead] = "MEETING_REQUESTED"

\* C14: the intent-based status update is applied only when neither the lead
\* slot-selection handler nor the meeting sub-flow consumed the message; when
\* one of them consumed it, the status is what that consumer left: unchanged
\* or MEETING_SCHEDULED after a selection, MEETING_REQUESTED after stated
\* availability that opened a negotiation (unchanged when nothing was parsed)
\* and after a request for times, INTERESTED or MEETING_SCHEDULED after a
\* confirmation.
C14_ConsumedMessageSkipsIntentRule ==
    [][ (lastOp'.op = "inbound" /\ lastIntent'.consumer \notin {"none", "init"})
        => LET l == lastOp'.lead
               c == lastIntent'.consumer
           IN CASE c = "selection" ->
                     status'[l] \in {status[l], "MEETING_SCHEDULED"}
                [] c = "availability" ->
                     status'[l] = IF pending' # pending
                                  THEN "MEETING_REQUESTED" ELSE status[l]
                [] c = "ask" -> status'[l] = "MEETING_REQUESTED"
                [] c = "confirm" ->
                     status'[l] \in {"INTERESTED", "MEETING_SCHEDULED"}
      ]_vars

\* C14 case: a negative reply that asks for a meeting without a time was
\* consumed by the meeting sub-flow; the lead is MEETING_REQUESTED, not
\* NOT_INTERESTED.
C14_Witness ==
    /\ lastOp.op = "inbound"
    /\ lastIntent.consumer = "ask"
    /\ lastIntent.intent.sentiment = "negative"
    /\ status[lastOp.lead] = "MEETING_REQUESTED"

\* C15: when process_new_lead succeeds in sending on at least one channel, the
\* lead's status becomes CONTACTED and its next follow-up time is two days
\* after the time of processing.
C15_OutreachSuccessSetsContacted ==
    \A l \in OutreachLeads, emailOk \in BOOLEAN, waOk \in BOOLEAN :
      status[l] = "NEW" =>
        LET r == ProcessNewLead(l, TRUE, emailOk, waOk)
        IN r.sent # <<>>
           => /\ r.status[l] = "CONTACTED"
              /\ r.followUp[l] = clock + 2 * HoursPerDay

\* C15 case: a lead was processed on a later day, a message went out, the lead
\* is CONTACTED and due two days from now.
C15_Witness ==
    /\ lastOut.op = "new_lead"
    /\ lastOut.sent # <<>>
    /\ clock > 0
    /\ status[lastOut.lead] = "CONTACTED"
    /\ followUp[lastOut.lead] = clock + 2 * HoursPerDay

\* C16: process_new_lead sends the first message on the preferred channel
\* only: email when the lead's email is present, verified and email is
\* enabled, WhatsApp only otherwise; a lead that is eligible for email is not
\* also sent the message on WhatsApp in the same call.
C16_OutreachOnPreferredChannelOnly ==
    \A l \in OutreachLeads, emailOk \in BOOLEAN, waOk \in BOOLEAN :
      status[l] = "NEW" =>
        LET r == ProcessNewLead(l, TRUE, emailOk, waOk)
            preferred == IF contact[l].email /\ EmailEnabled
                         THEN "email" ELSE "whatsapp"
        IN \A j \in 1..Len(r.sent) : r.sent[j].channel = preferred

C18_SweepTouchesDueLeadsOnly ==
    [][ lastOut'.op = "follow_ups"
        => \A l \in OutreachLeads :
             LET due == /\ status[l] \in {"CONTACTED", "FOLLOW_UP"}
                        /\ followUp[l] # NoTime
                        /\ followUp[l] <= clock
                 got == \E j \in 1..Len(lastOut'.sent) : lastOut'.sent[j].lead = l
             IN /\ got => due
                /\ IF got
                   THEN /\ status'[l] = "FOLLOW_UP"
                        /\ followUp'[l] = clock + 7 * HoursPerDay
                   ELSE /\ status'[l] = status[l]
                        /\ followUp'[l] = followUp[l]
      ]_vars

\* C18 case: a sweep sent a follow-up to a due lead, now FOLLOW_UP and due in
\* seven days, and passed over a lead whose follow-up date has come but who
\* has answered.
C18_Witness ==
    /\ lastOut.op = "follow_ups"
    /\ \E l \in OutreachLeads :
          /\ \E j \in 1..Len(lastOut.sent) : lastOut.sent[j].lead = l
          /\ status[l] = "FOLLOW_UP"
          /\ followUp[l] = clock + 7 * HoursPerDay
    /\ \E l \in OutreachLeads :
          /\ status[l] \in {"RESPONDED", "NOT_INTERESTED"}
          /\ followUp[l] # NoTime
          /\ followUp[l] <= clock
          /\ \A j \in 1..Len(lastOut.sent) : lastOut.sent[j].lead # l

\* C19: under every interleaving of the follow-up sweep with inbound replies
\* and manager approve/decline actions, a lead whose stored status is
\* NOT_INTERESTED or MEETING_SCHEDULED is never sent an automatic follow-up
\* and is never moved to FOLLOW_UP: a sweep that selected the lead before its
\* status changed does not overwrite the newer status.
C19_SweepRespectsTerminalStatus ==
    [][ \A l \in Leads :
          status[l] \in {"NOT_INTERESTED", "MEETING_SCHEDULED"}
          => /\ status'[l] # "FOLLOW_UP"
             /\ ~(/\ Len(sweep'.queue) < Len(sweep.queue)
                  /\ lastOut'.op = "followup_send"
                  /\ lastOut'.lead = l
                  /\ lastOut'.sent # <<>>)
      ]_vars

\* C20: with an hourly limit of N, after N successful WhatsApp sends within
\* the same hour the rate check for the next send returns can_send = false
\* and that send is not performed; after the hour rolls over the hourly
\* counter is 0 and a send is accepted again.
C20_HourlyLimitRejectsNextSend ==
    /\ posted >= HourlyLimit
       => /\ ~CheckRateLimit.can_send
          /\ \A ok \in BOOLEAN : ~WhatsappSendMessage(ok).success
    /\ lastOut.op = "hour_passes"
       => /\ CheckRateLimit.usage.hourly_count = 0
          /\ WhatsappSendMessage(TRUE).success

\* C21: each successful WhatsApp send increases the persisted daily count,
\* hourly count and lifetime total by exactly one, and a rejected or failed
\* send changes none of them.
C21_SuccessfulSendCountsOnce ==
    [][lastOut'.op = "whatsapp_send"
         => IF "posted" \in lastOut'.notices
            THEN /\ usage'.daily_count  = usage.daily_count + 1
                 /\ usage'.hourly_count = usage.hourly_count + 1
                 /\ usage'.total_sent   = usage.total_sent + 1
            ELSE /\ usage'.daily_count  = usage.daily_count
                 /\ usage'.hourly_count = usage.hourly_count
                 /\ usage'.total_sent   = usage.total_sent
      ]_vars

C23_OutboundTurnOnlyForSentMessage ==
    \A mid \in DOMAIN pending, sendOk \in BOOLEAN :
      ~pending[mid].processing =>
        LET e == HandleCallback("decline", mid, NoIdx, FALSE, TRUE, sendOk, <<>>)
        IN \A j \in 1..Len(e.turns) :
              e.turns[j].direction = "outbound"
                  => \E k \in 1..Len(e.sent) :
                        e.sent[k] = Sent(e.turns[j].lead, e.turns[j].channel,
                                         e.turns[j].kind)

\* The follow-up sweep is inside its `with db_session()` block.
SweepSessionOpen == sweep.phase = "running"

\* C24: no transactional scope of the Store is open while a network call is
\* in progress: when the sweep generates and sends a follow-up message, its
\* db_session scope has been closed before the call.
C24_NoSessionAcrossNetworkCall ==
    [][ (/\ Len(sweep'.queue) < Len(sweep.queue)
         /\ lastOut'.op = "followup_send")
            => ~SweepSessionOpen
      ]_vars

\* C25: an operation in db_session that hits 'database is locked' is rolled
\* back and executed again, the delay doubling, for at most MaxRetries
\* executions, after which the error propagates; another exception rolls back
\* and propagates without a retry; a normal exit commits; and the session is
\* closed on every exit path.
C25_LockedOperationIsRetried ==
    txn.phase = "done" =>
        LET s == txn.script
            Locked == {"locked", "commit_locked"}
        IN /\ s[1] = "ok"
                => txn.result = "committed" /\ txn.runs = 1 /\ txn.commits = 1
           /\ s[1] \in {"db_error", "error"}
                => /\ txn.result = "raised_" \o s[1]
                   /\ txn.runs = 1
                   /\ txn.rollbacks = 1
           /\ (s[1] \in Locked /\ s[2] = "ok")
                => /\ txn.result = "committed"
                   /\ txn.runs = 2
                   /\ txn.slept = InitialDelay
           /\ (\A i \in 1..MaxRetries : s[i] \in Locked)
                => /\ txn.result = "raised_locked"
                   /\ txn.runs = MaxRetries
           /\ txn.opened = txn.closed

\* C26: an exception raised in a step of a scheduler cycle never ends the
\* loop: the loop is stopped only once the system is no longer running, and
\* while it runs, a failed cycle is followed by the error delay and then by
\* the start of another cycle.
C26_FailedCycleIsFollowedByNextCycle ==
    /\ [](loop.pc = "stopped" => ~loop.running)
    /\ (loop.pc = "error_delay")
           ~> ((loop.pc = "check_new_leads" /\ loop.after_error) \/ ~loop.running)

\* A cycle has started after the error delay of a failed one.
C26_Witness ==
    /\ loop.running
    /\ loop.pc = "follow_ups"
    /\ loop.after_error
    /\ lastOut.op = "new_lead"

\* C27: when two replies of the same lead have been processed on separate
\* workers, the lead's final status is the one that processing the two
\* replies one after the other, in one of the two orders, leaves: the status
\* the later reply sets, or, when the later reply sets none, what the earlier
\* one left (no status update is lost).
C27_ConcurrentRepliesSerializable ==
    \A a \in Workers : \A b \in Workers \ {a} :
        (/\ workers[a].pc = "done"
         /\ workers[b].pc = "done"
         /\ workers[a].lead = workers[b].lead)
        => LET l == workers[a].lead
               Writes(w) == workers[w].solo # workers[w].fresh
               Serial(first, second) ==
                   IF Writes(second) THEN workers[second].solo
                   ELSE IF Writes(first) THEN workers[first].solo
                   ELSE "CONTACTED"
           IN status[l] \in {Serial(a, b), Serial(b, a)}

\* C28: after a successful approve-slot action the meeting confirmation is
\* sent to the lead on the channel of the lead's most recent inbound turn,
\* email or WhatsApp, and is recorded as an outbound turn on that channel.
C28_ConfirmationOnLastInboundChannel ==
    \A mid \in DOMAIN pending, idx \in Indexes :
        LET e  == HandleCallback("approve_time", mid, idx, TRUE, TRUE, TRUE, <<>>)
            l  == pending[mid].lead_id
            ch == lastInbound[l]
        IN "meeting_confirmed" \in e.notices
              => /\ \E j \in 1..Len(e.sent) : e.sent[j] = Sent(l, ch, "confirmation")
                 /\ \E j \in 1..Len(e.turns) :
                        e.turns[j] = Turn(l, ch, "outbound", "confirmation")

C30_InvalidIndexIsNoOp ==
    \A mid \in DOMAIN pending, idx \in Indexes, o \in Outcomes :
        (~pending[mid].processing /\ idx >= Len(pending[mid].matching_slots))
            => LET e == HandleCallback("approve_time", mid, idx,
                                       o.calOk, o.delOk, o.sendOk, <<>>)
               IN /\ e.notices # {}
                  /\ e.status = status
                  /\ e.meetings = meetings
                  /\ e.events = events
                  /\ mid \in DOMAIN e.pending
                  /\ ~e.pending[mid].processing

\* C31: a failure of the message generator inside process_new_lead is
\* replaced by a fallback inside the operation: whatever the outcome of the
\* generation and of the sends, process_new_lead does not raise to the
\* scheduler loop.
C31_GenerationFailureNeverPropagates ==
    \A l \in DOMAIN status, o \in OutreachOutcomes :
        status[l] = "NEW"
            => ~ProcessNewLead(l, o.genOk, o.emailOk, o.waOk).raised

\* C32: a meeting whose status is confirmed has a calendar-event identifier,
\* and a meeting becomes confirmed (a new row, or a row that was not
\* confirmed) only in a step that obtained a new event id from the calendar
\* and stored that id on the row.
C32_ConfirmedMeetingHasEventId ==
    [][ /\ \A i \in 1..Len(meetings') :
              meetings'[i].status = "confirmed"
                  => meetings'[i].calendar_event_id # NoEvent
        /\ \A i \in 1..Len(meetings') :
              ( /\ meetings'[i].status = "confirmed"
                /\ (i > Len(meetings) \/ meetings[i].status # "confirmed") )
                  => /\ nextEvent' = nextEvent + 1
                     /\ meetings'[i].calendar_event_id = nextEvent
                     /\ nextEvent \in events'
      ]_vars

C32_Witness ==
    /\ lastOp.op = "callback"
    /\ "meeting_confirmed" \in lastOp.notices
    /\ \E i \in 1..Len(meetings) :
          /\ meetings[i].status = "confirmed"
          /\ meetings[i].calendar_event_id \in events
    /\ \E l \in DOMAIN status : status[l] = "MEETING_SCHEDULED"

C34_OneOutboundTurnPerSentMessage ==
    \A l \in Leads, msg \in Messages, ch \in Channels, sendOk \in BOOLEAN :
     \A intent \in IntentsOf(msg) :
      \A avail \in (IF MeetingFlowBranch(intent) = "availability"
                    THEN AvailInputs ELSE {<<>>}) :
        (IF ch = "whatsapp" THEN contact[l].phone ELSE contact[l].email) =>
        LET e == ProcessLeadResponse(l, msg, ch, intent, avail, {}, sendOk, TRUE).eff
            turnsOf(s) == {j \in 1..Len(e.turns) :
                              e.turns[j] = Turn(s.lead, s.channel, "outbound", s.kind)}
            sentOf(s)  == {k \in 1..Len(e.sent) : e.sent[k] = s}
        IN /\ \A k \in 1..Len(e.sent) :
                 Cardinality(turnsOf(e.sent[k])) = Cardinality(sentOf(e.sent[k]))
           /\ \A j \in 1..Len(e.turns) :
                 e.turns[j].direction = "outbound"
                     => sentOf(Sent(e.turns[j].lead, e.turns[j].channel,
                                    e.turns[j].kind)) # {}

\* C35: the calendar-event id stored on a meeting row refers to an event that
\* exists in the calendar.
C35_MeetingEventExists ==
    \A i \in 1..Len(meetings) :
        meetings[i].calendar_event_id # NoEvent
            => meetings[i].calendar_event_id \in events

\* C36: the registry holds at most one negotiation per lead.
C36_OneNegotiationPerLead ==
    \A a \in DOMAIN pending : \A b \in DOMAIN pending :
        pending[a].lead_id = pending[b].lead_id => a = b

\* C37: a free-text message of the manager changes at most one negotiation,
\* and only one that is awaiting manual input with a request less than an
\* hour old; when there is none, the message changes nothing and nothing is
\* sent to a lead.
C37_ManagerTextTouchesOneOpenRequest ==
    \A suggested \in SuggestInputs, sendOk \in BOOLEAN :
        LET e        == HandleManualTimeInput(suggested, sendOk)
            open     == {m \in DOMAIN pending :
                            /\ pending[m].awaiting_manual_input
                            /\ pending[m].manual_input_requested_at # NoTime
                            /\ clock - pending[m].manual_input_requested_at
                                   < ManualInputWindow}
            changed  == {m \in DOMAIN pending :
                            m \notin DOMAIN e.pending \/ e.pending[m] # pending[m]}
        IN /\ DOMAIN e.pending \subseteq DOMAIN pending
           /\ Cardinality(changed) <= 1
           /\ changed \subseteq open
           /\ \A j \in 1..Len(e.sent) :
                 \E m \in open : e.sent[j].lead = pending[m].lead_id
           /\ e.meetings = meetings /\ e.status = status /\ e.events = events
           /\ open = {} => /\ e.pending = pending
                           /\ e.sent = <<>>
                           /\ e.turns = <<>>

C37_Witness ==
    /\ lastOp.op = "manager_text"
    /\ "options_sent" \in lastOp.notices
    /\ \E m \in DOMAIN pending :
          /\ m # lastOp.mid
          /\ pending[m].awaiting_manual_input
          /\ clock - pending[m].manual_input_requested_at >= ManualInputWindow
    /\ lastOp.mid \in DOMAIN pending
    /\ pending[lastOp.mid].awaiting_lead_selection

\* C38: no negotiation has both phase flags set: awaiting manual input and
\* awaiting the lead's selection are never true together on one entry.
C38_PhaseFlagsExclusive ==
    \A m \in DOMAIN pending :
        ~(pending[m].awaiting_manual_input /\ pending[m].awaiting_lead_selection)

C38_Witness ==
    /\ lastOp.op = "callback"
    /\ lastOp.action \in {"custom_time", "manager_suggest"}
    /\ lastOp.notices = {"being_processed"}
    /\ lastOp.mid \in DOMAIN pending
    /\ pending[lastOp.mid].awaiting_lead_selection
    /\ ~pending[lastOp.mid].awaiting_manual_input

\* C39: a lead whose status is MEETING_SCHEDULED has a meeting row with
\* status confirmed, and a step that makes a lead MEETING_SCHEDULED leaves
\* that row in the same step.
C39_ScheduledLeadHasConfirmedMeeting ==
    [][ \A l \in DOMAIN status :
           status'[l] = "MEETING_SCHEDULED"
               => \E i \in 1..Len(meetings') :
                     /\ meetings'[i].lead_id = l
                     /\ meetings'[i].status = "confirmed"
      ]_vars

C39_Witness ==
    /\ lastOp.op = "meeting_rescheduled"
    /\ \E l \in DOMAIN status :
          /\ status[l] = "MEETING_SCHEDULED"
          /\ \E i \in 1..Len(meetings) :
                /\ meetings[i].lead_id = l
                /\ meetings[i].status = "confirmed"
                /\ meetings[i].scheduled_time = MaxTime

\* C40: no negotiation is stuck: a manager decline on a negotiation that is
\* in the registry is accepted and removes it, also after 'suggest
\* alternatives' or a request for manual input has completed on it; it is
\* not answered with 'already being processed'.
C40_DeclineAlwaysAccepted ==
    [][ (/\ lastOp'.op = "callback"
         /\ lastOp'.action = "decline"
         /\ lastOp'.mid \in DOMAIN pending)
            => /\ lastOp'.mid \notin DOMAIN pending'
               /\ "being_processed" \notin lastOp'.notices
      ]_vars

====
